---- MODULE Spec2Model ----
(***************************************************************************)
(* A model of the ListManager of liquid-labs/resource-model: the master    *)
(* sequence of records, the implicit primary index, the secondary          *)
(* ONE_TO_ONE and ONE_TO_MANY indexes and the operations that keep them in *)
(* step (src/src/ListManager.js), and of the layers over it: the Item, the  *)
(* ItemManager and Resources facades with their file, and the Model that   *)
(* validates and saves its item managers (src/src/Model.mjs).              *)
(*                                                                         *)
(* JavaScript objects have identity, so records and arrays live in heaps   *)
(* and the master sequence and the indexes hold references into them.  A   *)
(* field that is missing from an object reads as Undef; an index is a      *)
(* function whose domain is the set of its own property names.             *)
(***************************************************************************)
EXTENDS Integers, Sequences, FiniteSets, TLC

\* ---------------------------------------------------------------- bounds
\* addItem is offered while the master sequence is shorter
MaxItems == 2
\* addIndex is offered while fewer specs are registered
MaxIndexes == 2
\* how many distinct values the 'id' and 'name' fields take
NumKeys == 2
\* how many calls are made on a constructed store
MaxCalls == 3

\* ------------------------------------------------------- program constants
ONE_TO_ONE == 0
ONE_TO_MANY == 2
\* a relationship value that is neither of the two
BadRelationship == 1
\* stands for a spec whose 'relationship' is undefined
NoRelationship == -1

\* what a missing field reads as; also its property name
Undef == "undefined"

\* values of 'id' and 'name'
KeyNames == <<"a", "b", "c", "d", "e">>
KeyVals == {KeyNames[i] : i \in 1..NumKeys}
\* values of the 'type' field
TypeVals == {"foo", "bar"}
\* values held by a nested object
DataVals == {"Hi", "Bye"}

Fields == {"id", "name", "type"}

\* An index is an object literal ({}), so besides its own properties it has
\* the ones of Object.prototype: a name every object literal inherits, and
\* what stands for the value it reads as (the function Object, no record)
Inherited == {"constructor"}
InheritedValue == -1

\* ------------------------------------------------------------------ state
VARIABLES
  keyField,    \* #keyField
  heap,        \* record objects: reference -> [id, name, type, nestedObj]
  nheap,       \* nested objects: reference -> data
  arrs,        \* array objects: reference -> sequence of record references
  items,       \* #items: the reference of the master sequence array
  indexSpecs,  \* #indexSpecs: sequence of [name, indexField, relationship]
  specIndex,   \* #specIndex: name -> position of the spec in indexSpecs
  idx,         \* the index object of each spec, by position in indexSpecs
  held,        \* what the caller received from its last retrieval call
  last,        \* the last call: operation, argument and whether it threw
  thrown,      \* whether some call has thrown since construction
  calls,       \* how many calls have been made since construction
  file,        \* the file an ItemManager loads from and saves to
  model,       \* the Model the ItemManager is bound in, and the manager's validate
  writes       \* the file writes the last save call started: in flight or ended

vars == <<keyField, heap, nheap, arrs, items, indexSpecs, specIndex, idx, held,
          last, thrown, calls, file, model, writes>>

\* ------------------------------------------------- objects and properties
\* the one element of a set: binds a value that is used more than once
The(S) == CHOOSE x \in S : TRUE

EmptyObj == [k \in {} |-> 0]

HasKey(o, k) == k \in DOMAIN o

Put(o, k, v) == [x \in (DOMAIN o) \cup {k} |-> IF x = k THEN v ELSE o[x]]

Del(o, k) == [x \in (DOMAIN o) \ {k} |-> o[x]]

\* o[k] !== undefined
Defined(o, k) == HasKey(o, k) \/ k \in Inherited

\* o[k], 0 for undefined
Read(o, k) ==
  IF HasKey(o, k) THEN o[k]
  ELSE IF k \in Inherited THEN InheritedValue
  ELSE 0

\* r[f] for what an index lookup gave: the function Object has a 'name'
\* and none of the other fields
FieldAt(h, r, f) ==
  IF r = InheritedValue THEN (IF f = "name" THEN "Object" ELSE Undef)
  ELSE h[r][f]

Rec(i, n, t, no) == [id |-> i, name |-> n, type |-> t, nestedObj |-> no]

NoRec == Rec(Undef, Undef, Undef, 0)

\* the smallest reference not in use
NewRef(h) == CHOOSE r \in 1..(Cardinality(DOMAIN h) + 1) : r \notin DOMAIN h

\* Array.prototype.findIndex, 0-based, -1 when nothing matches
\* matches[p] is what the callback returns for the p-th element
FindIndex(matches) ==
  IF \E p \in 1..Len(matches) : matches[p]
    THEN (CHOOSE p \in 1..Len(matches) :
            matches[p] /\ \A q \in 1..(p - 1) : ~matches[q]) - 1
  ELSE -1

\* Array.prototype.splice(start, 1, ...ins): a negative start counts from the
\* end of the array
SpliceStart(s, start) ==
  IF start < 0 THEN (IF Len(s) + start < 0 THEN 0 ELSE Len(s) + start)
  ELSE IF start > Len(s) THEN Len(s) ELSE start

Splice(s, start, ins) ==
  LET b == SpliceStart(s, start)
  IN  SubSeq(s, 1, b) \o ins \o SubSeq(s, b + 2, Len(s))

\* ------------------------------------------------------ index routines
\* Every routine takes the record heap h, the array heap A and one index
\* object ix, and yields the index object and the array heap it leaves
\* behind and whether it threw.
Done(ix, A) == [ix |-> ix, arrs |-> A, threw |-> FALSE]

Thrown(ix, A) == [ix |-> ix, arrs |-> A, threw |-> TRUE]

truncateObject(o) == EmptyObj

RECURSIVE ReduceOneToOne(_, _, _, _, _)
ReduceOneToOne(h, its, newIdx, indexField, i) ==
  IF i > Len(its) THEN newIdx
  ELSE ReduceOneToOne(h, its, Put(newIdx, h[its[i]][indexField], its[i]),
                      indexField, i + 1)

rebuildOneToOne_NoTruncate(h, A, its, ix, indexField) ==
  Done(ReduceOneToOne(h, its, ix, indexField, 1), A)

rebuildOneToOne(h, A, its, ix, indexField) ==
  Done(ReduceOneToOne(h, its, truncateObject(ix), indexField, 1), A)

\* list = index[indexValue] || []; list.push(item); index[indexValue] = list
PushToBucket(h, A, item, ix, indexField) ==
  LET indexValue == h[item][indexField]
      fresh == NewRef(A)
  IN  IF HasKey(ix, indexValue)
        THEN Done(ix, Put(A, ix[indexValue], Append(A[ix[indexValue]], item)))
      ELSE IF indexValue \in Inherited
        THEN Thrown(ix, A)   \* list is a function: list.push throws
      ELSE Done(Put(ix, indexValue, fresh), Put(A, fresh, <<item>>))

RECURSIVE ReduceOneToMany(_, _, _, _, _, _)
ReduceOneToMany(h, A, its, newIdx, indexField, i) ==
  IF i > Len(its) THEN Done(newIdx, A)
  ELSE The({IF r.threw THEN r
            ELSE ReduceOneToMany(h, r.arrs, its, r.ix, indexField, i + 1) :
              r \in {PushToBucket(h, A, its[i], newIdx, indexField)}})

rebuildOneToMany_NoTruncate(h, A, its, ix, indexField) ==
  ReduceOneToMany(h, A, its, ix, indexField, 1)

rebuildOneToMany(h, A, its, ix, indexField) ==
  ReduceOneToMany(h, A, its, truncateObject(ix), indexField, 1)

addOneToOne(h, A, item, ix, indexField) ==
  Done(Put(ix, h[item][indexField], item), A)

addOneToMany_FreshBucket(h, A, item, ix, indexField) ==
  Done(Put(ix, h[item][indexField], NewRef(A)), Put(A, NewRef(A), <<item>>))

addOneToMany(h, A, item, ix, indexField) ==
  PushToBucket(h, A, item, ix, indexField)

\* item is the reference of the replacement; idIndex is the primary index
\* object as it is when this index is reached; isIdIndex is idIndex === index
updateOneToOne(h, A, item, ix, indexField, idIndex, isIdIndex) ==
  IF isIdIndex THEN Done(Put(ix, h[item][indexField], item), A)
  ELSE IF ~Defined(idIndex, h[item][indexField])
    THEN Thrown(ix, A)   \* origItem is undefined: origItem[indexField] throws
  ELSE LET origItem == Read(idIndex, h[item][indexField])
       IN  Done(Put(Del(ix, FieldAt(h, origItem, indexField)),
                    h[item][indexField], item), A)

\* rec is the value of the argument object (its fields); origList is the
\* reference of the bucket array
getOrigData(h, A, rec, kf, indexField, idIndex, ix) ==
  IF ~Defined(idIndex, rec[kf])
    THEN [threw |-> TRUE, origItem |-> 0, origList |-> 0, origListIndex |-> -1]
  ELSE LET origItem == Read(idIndex, rec[kf])
           origIndexValue == FieldAt(h, origItem, indexField)
       IN  IF ~HasKey(ix, origIndexValue)   \* origList has no findIndex
             THEN [threw |-> TRUE, origItem |-> origItem, origList |-> 0,
                   origListIndex |-> -1]
           ELSE [threw |-> FALSE, origItem |-> origItem,
                 origList |-> ix[origIndexValue],
                 origListIndex |->
                   FindIndex([p \in 1..Len(A[ix[origIndexValue]]) |->
                                h[A[ix[origIndexValue]][p]][kf] =
                                  FieldAt(h, origItem, kf)])]

updateOneToMany(h, A, item, kf, ix, indexField, idIndex) ==
  The({IF od.threw THEN Thrown(ix, A)
       ELSE IF FieldAt(h, od.origItem, indexField) = h[item][indexField]
         THEN Done(ix, Put(A, od.origList,
                           Splice(A[od.origList], od.origListIndex, <<item>>)))
       ELSE addOneToMany(h,
                         Put(A, od.origList,
                             Splice(A[od.origList], od.origListIndex, <<>>)),
                         item, ix, indexField) :
         od \in {getOrigData(h, A, h[item], kf, indexField, idIndex, ix)}})

deleteOneToOne(h, A, rec, indexField, ix, idIndex) ==
  IF ~Defined(idIndex, rec[indexField])
    THEN Thrown(ix, A)   \* origItem is undefined: origItem[indexField] throws
  ELSE Done(Del(ix, FieldAt(h, Read(idIndex, rec[indexField]), indexField)), A)

deleteOneToMany(h, A, rec, idIndex, ix, indexField, kf) ==
  The({IF od.threw THEN Thrown(ix, A)
       ELSE The({IF Len(spliced) = 0
                   THEN Done(Del(ix, rec[indexField]), Put(A, od.origList, spliced))
                 ELSE Done(ix, Put(A, od.origList, spliced)) :
                   spliced \in {Splice(A[od.origList], od.origListIndex, <<>>)}}) :
         od \in {getOrigData(h, A, rec, kf, indexField, idIndex, ix)}})

\* the one2oneFunc / one2manyFunc pair a caller hands to the router, by name
one2oneFunc(fn, h, A, a, spec, ix, idIndex, isIdIndex) ==
  CASE fn = "rebuild" -> rebuildOneToOne(h, A, A[a.items], ix, spec.indexField)
    [] fn = "add"     -> addOneToOne(h, A, a.item, ix, spec.indexField)
    [] fn = "update"  -> updateOneToOne(h, A, a.item, ix, spec.indexField,
                                        idIndex, isIdIndex)
    [] fn = "delete"  -> deleteOneToOne(h, A, a.rec, spec.indexField, ix, idIndex)

one2manyFunc(fn, h, A, a, spec, ix, idIndex) ==
  CASE fn = "rebuild" -> rebuildOneToMany(h, A, A[a.items], ix, spec.indexField)
    [] fn = "add"     -> addOneToMany(h, A, a.item, ix, spec.indexField)
    [] fn = "update"  -> updateOneToMany(h, A, a.item, a.keyField, ix,
                                         spec.indexField, idIndex)
    [] fn = "delete"  -> deleteOneToMany(h, A, a.rec, idIndex, ix,
                                         spec.indexField, a.keyField)

routeByRelationship(fn, h, A, a, spec, ix, idIndex, isIdIndex) ==
  CASE spec.relationship = ONE_TO_ONE ->
         one2oneFunc(fn, h, A, a, spec, ix, idIndex, isIdIndex)
    [] spec.relationship = ONE_TO_MANY ->
         one2manyFunc(fn, h, A, a, spec, ix, idIndex)
    [] OTHER -> Thrown(ix, A)

\* the specs are visited last to first; the first throw ends the visit and
\* what the earlier visits did stays done
RECURSIVE RouteFrom(_, _, _, _, _, _, _)
RouteFrom(fn, h, A, a, specs, cur, i) ==
  IF i = 0 THEN [idx |-> cur, arrs |-> A, threw |-> FALSE]
  ELSE The({IF r.threw THEN [idx |-> [cur EXCEPT ![i] = r.ix], arrs |-> r.arrs,
                             threw |-> TRUE]
            ELSE RouteFrom(fn, h, r.arrs, a, specs, [cur EXCEPT ![i] = r.ix], i - 1) :
              r \in {routeByRelationship(fn, h, A, a, specs[i], cur[i], cur[1], i = 1)}})

routeByRelationships(fn, h, A, a, specs, cur) ==
  RouteFrom(fn, h, A, a, specs, cur, Len(specs))

\* the arguments the router passes through to the routines
Args(its, item, rec, kf) == [items |-> its, item |-> item, rec |-> rec, keyField |-> kf]

\* ------------------------------------------------------------ the heaps
Range(s) == {s[i] : i \in 1..Len(s)}

\* a caller's object literal enters the heap: nestedObj = 1 in the literal
\* asks for a nested object {data: 'Hi'} of its own
Alloc(h, nh, rec) ==
  LET r == NewRef(h)
      n == NewRef(nh)
  IN  IF rec.nestedObj = 0
        THEN [heap |-> Put(h, r, rec), nheap |-> nh, ref |-> r]
      ELSE [heap |-> Put(h, r, [rec EXCEPT !.nestedObj = n]),
            nheap |-> Put(nh, n, "Hi"), ref |-> r]

\* a copy of the record that shares the nested object with the original
structuredClone_Shallow(h, nh, r) ==
  [heap |-> Put(h, NewRef(h), h[r]), nheap |-> nh, ref |-> NewRef(h)]

\* structuredClone of one record: a new object, and a new nested object
structuredClone(h, nh, r) ==
  LET r2 == NewRef(h)
      n2 == NewRef(nh)
  IN  IF h[r].nestedObj = 0
        THEN [heap |-> Put(h, r2, h[r]), nheap |-> nh, ref |-> r2]
      ELSE [heap |-> Put(h, r2, [h[r] EXCEPT !.nestedObj = n2]),
            nheap |-> Put(nh, n2, nh[h[r].nestedObj]), ref |-> r2]

\* value.map((i) => structuredClone(i)): every element cloned on its own
RECURSIVE MapClone(_, _, _, _, _)
MapClone(h, nh, s, i, acc) ==
  IF i > Len(s) THEN [heap |-> h, nheap |-> nh, refs |-> acc]
  ELSE The({MapClone(c.heap, c.nheap, s, i + 1, Append(acc, c.ref)) :
              c \in {structuredClone(h, nh, s[i])}})

\* structuredClone of an array: an object that occurs twice in the array is
\* one object in the copy as well
RECURSIVE ArrayClone(_, _, _, _, _, _)
ArrayClone(h, nh, s, i, acc, seen) ==
  IF i > Len(s) THEN [heap |-> h, nheap |-> nh, refs |-> acc]
  ELSE IF HasKey(seen, s[i])
    THEN ArrayClone(h, nh, s, i + 1, Append(acc, seen[s[i]]), seen)
  ELSE The({ArrayClone(c.heap, c.nheap, s, i + 1, Append(acc, c.ref),
                        Put(seen, s[i], c.ref)) :
              c \in {structuredClone(h, nh, s[i])}})

structuredCloneArray(h, nh, s) == ArrayClone(h, nh, s, 1, <<>>, EmptyObj)

\* what the caller holds from its last retrieval: nothing, one item (v is
\* its reference, 0 for undefined) or a list (v is the array's reference)
NoHeld == [kind |-> "none", v |-> 0]

HeldItem(r) == [kind |-> "item", v |-> r]

HeldList(a) == [kind |-> "list", v |-> a]

\* the caller received the function an inherited name reads as
HeldInherited == [kind |-> "inherited", v |-> 0]

\* what the caller holds when it is handed the value of an index lookup
HeldValue(r) == IF r = InheritedValue THEN HeldInherited ELSE HeldItem(r)

\* Object identity is up to renaming, and an object nobody can reach is
\* collected: after every call the heaps are put in a normal form in which the
\* reachable arrays and records are numbered in the order a walk over the
\* master sequence, the indexes (by position, property names in PropOrder)
\* and the caller's value meets them.
PropOrder == <<"a", "b", "c", "d", "e", "foo", "bar", "undefined", "constructor", "A">>

SortedKeys(o) == SelectSeq(PropOrder, LAMBDA k : k \in DOMAIN o)

RECURSIVE Dedupe(_, _, _)
Dedupe(s, i, acc) ==
  IF i > Len(s) THEN acc
  ELSE IF s[i] \in Range(acc) THEN Dedupe(s, i + 1, acc)
  ELSE Dedupe(s, i + 1, Append(acc, s[i]))

RECURSIVE Flatten(_, _)
Flatten(ss, i) == IF i > Len(ss) THEN <<>> ELSE ss[i] \o Flatten(ss, i + 1)

PositionIn(s) == [x \in Range(s) |-> CHOOSE p \in 1..Len(s) : s[p] = x]

IndexValues(o) == [j \in 1..Len(SortedKeys(o)) |-> o[SortedKeys(o)[j]]]

ReachableArrays(its, specs, ix, hd) ==
  Dedupe(<<its>>
         \o Flatten([i \in 1..Len(specs) |->
                       IF specs[i].relationship = ONE_TO_MANY
                         THEN IndexValues(ix[i]) ELSE <<>>], 1)
         \o (IF hd.kind = "list" THEN <<hd.v>> ELSE <<>>), 1, <<>>)

ReachableRecords(A, seqA, specs, ix, hd) ==
  Dedupe(Flatten([p \in 1..Len(seqA) |-> A[seqA[p]]], 1)
         \o Flatten([i \in 1..Len(specs) |->
                       IF specs[i].relationship = ONE_TO_ONE
                         THEN IndexValues(ix[i]) ELSE <<>>], 1)
         \o (IF hd.kind = "item" /\ hd.v # 0 THEN <<hd.v>> ELSE <<>>), 1, <<>>)

ReachableNested(h, seqR) ==
  Dedupe(SelectSeq([p \in 1..Len(seqR) |-> h[seqR[p]].nestedObj],
                   LAMBDA n : n # 0), 1, <<>>)

LastCall(op, threw, arg, key) == [op |-> op, threw |-> threw, arg |-> arg, key |-> key]

\* what a retrieval was called with, kept in the shape of a record: the key
\* as 'id', the index name as 'name', the index handle as 'nestedObj'
CallArg(key, index, indexName) == Rec(key, indexName, Undef, index)

\* the heaps, the store and the caller's value in normal form
Renumbered(h, nh, A, its, specs, ix, hd, seqA, seqR, seqN, toA, toR, toN) ==
  [heap |-> [p \in 1..Len(seqR) |->
               [h[seqR[p]] EXCEPT !.nestedObj = IF @ = 0 THEN 0 ELSE toN[@]]],
   nheap |-> [p \in 1..Len(seqN) |-> nh[seqN[p]]],
   arrs |-> [p \in 1..Len(seqA) |->
               [j \in 1..Len(A[seqA[p]]) |-> toR[A[seqA[p]][j]]]],
   items |-> toA[its],
   idx |-> [i \in 1..Len(specs) |->
              [k \in DOMAIN ix[i] |->
                 IF specs[i].relationship = ONE_TO_MANY
                   THEN toA[ix[i][k]] ELSE toR[ix[i][k]]]],
   held |-> [hd EXCEPT !.v = IF hd.kind = "list" THEN toA[@]
                             ELSE IF hd.kind = "item" /\ @ # 0 THEN toR[@]
                             ELSE @]]

NormalForm(h, nh, A, its, specs, ix, hd) ==
  The({The({The({The({
    Renumbered(h, nh, A, its, specs, ix, hd, seqA, seqR, seqN, toA, toR, toN) :
      toA \in {PositionIn(seqA)}, toR \in {PositionIn(seqR)},
      toN \in {PositionIn(seqN)}}) :
      seqN \in {ReachableNested(h, seqR)}}) :
      seqR \in {ReachableRecords(A, seqA, specs, ix, hd)}}) :
      seqA \in {ReachableArrays(its, specs, ix, hd)}})

\* no Model has been constructed, and the ItemManager has no validate
NoModel ==
  [exists |-> FALSE, rootItemManagers |-> 0, validators |-> <<>>,
   subModels |-> <<>>, validate |-> "undefined"]

\* no file of the name, and a file holding the JSON text of a list of records
NoFile == [exists |-> FALSE, items |-> <<>>]

FileOf(recs) == [exists |-> TRUE, items |-> recs]

\* the state a call leaves behind, f being the file and w the writes of
\* the last save call afterwards
LeaveAll(h, nh, A, its, specs, si, ix, hd, l, f, w) ==
  \E n \in {NormalForm(h, nh, A, its, specs, ix, hd)} :
      /\ heap' = n.heap
      /\ nheap' = n.nheap
      /\ arrs' = n.arrs
      /\ items' = n.items
      /\ indexSpecs' = specs
      /\ specIndex' = si
      /\ idx' = n.idx
      /\ held' = n.held
      /\ last' = l
      /\ thrown' = (thrown \/ l.threw)
      /\ calls < MaxCalls
      /\ calls' = calls + 1
      /\ file' = f
      /\ writes' = w
      /\ UNCHANGED <<keyField, model>>

\* the state a call that starts no write leaves behind, f being the file
\* afterwards
LeaveWith(h, nh, A, its, specs, si, ix, hd, l, f) ==
  LeaveAll(h, nh, A, its, specs, si, ix, hd, l, f, writes)

\* the state a call that writes no file leaves behind
Leave(h, nh, A, its, specs, si, ix, hd, l) ==
  LeaveWith(h, nh, A, its, specs, si, ix, hd, l, file)

\* ------------------------------------------------------- the ListManager
\* Every method yields the store it leaves behind, [heap, nheap, arrs,
\* items, indexSpecs, specIndex, idx], and whether it threw.
Store(h, nh, A, its, specs, si, ix, threw) ==
  [heap |-> h, nheap |-> nh, arrs |-> A, items |-> its, indexSpecs |-> specs,
   specIndex |-> si, idx |-> ix, threw |-> threw]

rebuild_Skipped(h, nh, A, its, specs, si, ix, i) ==
  Store(h, nh, A, its, specs, si, ix, FALSE)

\* rebuild(specOrIndex) for the spec registered at position i
rebuild(h, nh, A, its, specs, si, ix, i) ==
  The({Store(h, nh, r.arrs, its, specs, si, [ix EXCEPT ![i] = r.ix], r.threw) :
         r \in {routeByRelationship("rebuild", h, A, Args(its, 0, NoRec, Undef),
                                    specs[i], ix[i], ix[1], i = 1)}})

rebuildAll(h, nh, A, its, specs, si, ix, kf) ==
  The({Store(h, nh, r.arrs, its, specs, si, r.idx, r.threw) :
         r \in {routeByRelationships("rebuild", h, A, Args(its, 0, NoRec, kf),
                                     specs, ix)}})

addIndex_RelationshipUnchecked(h, nh, A, its, specs, si, ix, indexSpec) ==
  IF indexSpec.indexField = Undef
    THEN Store(h, nh, A, its, specs, si, ix, TRUE)
  ELSE The({Store(h, nh, r.arrs, its, Append(specs, indexSpec),
                  IF indexSpec.name # Undef
                    THEN Put(si, indexSpec.name, Len(specs) + 1) ELSE si,
                  Append(ix, r.ix), r.threw) :
              r \in {routeByRelationship("rebuild", h, A, Args(its, 0, NoRec, Undef),
                                         indexSpec, EmptyObj, EmptyObj, FALSE)}})

addIndex(h, nh, A, its, specs, si, ix, indexSpec) ==
  IF indexSpec.relationship = NoRelationship \/ indexSpec.indexField = Undef
    THEN Store(h, nh, A, its, specs, si, ix, TRUE)
  ELSE LET specs1 == Append(specs, indexSpec)
           si1 == IF indexSpec.name # Undef
                    THEN Put(si, indexSpec.name, Len(specs1)) ELSE si
       IN  rebuild(h, nh, A, its, specs1, si1, Append(ix, EmptyObj), Len(specs1))

\* item is the reference of the caller's object
addItem(h, nh, A, its, specs, si, ix, item) ==
  The({Store(h, nh, r.arrs, its, specs, si, r.idx, r.threw) :
         r \in {routeByRelationships("add", h, Put(A, its, Append(A[its], item)),
                                     Args(its, item, h[item], Undef), specs, ix)}})

emptyItems_InPlace(A, its) == [arrs |-> Put(A, its, <<>>), items |-> its]

\* this.#items = []: the master sequence becomes a new, empty array; the
\* array it was is left as it is
emptyItems(A, its) == [arrs |-> Put(A, NewRef(A), <<>>), items |-> NewRef(A)]

truncate_KeepIndexes(h, nh, A, its, specs, si, ix, kf) ==
  Store(h, nh, Put(A, NewRef(A), <<>>), NewRef(A), specs, si, ix, FALSE)

truncate(h, nh, A, its, specs, si, ix, kf) ==
  LET e == emptyItems(A, its)
  IN  rebuildAll(h, nh, e.arrs, e.items, specs, si, ix, kf)

updateItem(h, nh, A, its, specs, si, ix, kf, item) ==
  IF ~Defined(ix[1], h[item][kf])
    THEN Store(h, nh, A, its, specs, si, ix, TRUE)
  ELSE LET itemIndex == FindIndex([p \in 1..Len(A[its]) |-> h[A[its][p]].id = h[item].id])
           A1 == Put(A, its, Splice(A[its], itemIndex, <<item>>))
       IN  The({Store(h, nh, r.arrs, its, specs, si, r.idx, r.threw) :
                  r \in {routeByRelationships("update", h, A1,
                                              Args(its, item, h[item], kf),
                                              specs, ix)}})

\* rec is the value of the argument object
deleteItem(h, nh, A, its, specs, si, ix, kf, rec) ==
  IF ~Defined(ix[1], rec[kf])
    THEN Store(h, nh, A, its, specs, si, ix, TRUE)
  ELSE LET itemIndex == FindIndex([p \in 1..Len(A[its]) |-> h[A[its][p]].id = rec.id])
           A1 == Put(A, its, Splice(A[its], itemIndex, <<>>))
       IN  The({Store(h, nh, r.arrs, its, specs, si, r.idx, r.threw) :
                  r \in {routeByRelationships("delete", h, A1,
                                              Args(its, 0, rec, kf), specs, ix)}})

\* A retrieval yields the heaps it leaves behind (a copy is a new object),
\* what the caller receives, and whether it threw.
Got(h, nh, A, hd, threw) ==
  [heap |-> h, nheap |-> nh, arrs |-> A, held |-> hd, threw |-> threw]

\* [...list]: a new array of the same objects
ListCopy(h, nh, A, s) == Got(h, nh, Put(A, NewRef(A), s), HeldList(NewRef(A)), FALSE)

\* structuredClone(list): a new array of new objects
ListClone(h, nh, A, s) ==
  The({Got(c.heap, c.nheap, Put(A, NewRef(A), c.refs), HeldList(NewRef(A)), FALSE) :
         c \in {structuredCloneArray(h, nh, s)}})

\* list.map((i) => structuredClone(i))
ListMapClone(h, nh, A, s) ==
  The({Got(c.heap, c.nheap, Put(A, NewRef(A), c.refs), HeldList(NewRef(A)), FALSE) :
         c \in {MapClone(h, nh, s, 1, <<>>)}})

\* structuredClone(item), item possibly undefined (0); a function cannot
\* be cloned
ItemClone(h, nh, A, item) ==
  IF item = 0 THEN Got(h, nh, A, HeldItem(0), FALSE)
  ELSE IF item = InheritedValue THEN Got(h, nh, A, NoHeld, TRUE)
  ELSE The({Got(c.heap, c.nheap, A, HeldItem(c.ref), FALSE) :
              c \in {structuredClone(h, nh, item)}})

\* getItems whose list-only copy is the master sequence array itself
getItems_LiveList(h, nh, A, its, cloneAll, cloneList, noClone) ==
  IF cloneAll THEN ListClone(h, nh, A, A[its])
  ELSE IF cloneList \/ noClone THEN Got(h, nh, A, HeldList(its), FALSE)
  ELSE ListClone(h, nh, A, A[its])

getItems(h, nh, A, its, cloneAll, cloneList, noClone) ==
  IF cloneAll THEN ListClone(h, nh, A, A[its])
  ELSE IF cloneList THEN ListCopy(h, nh, A, A[its])
  ELSE IF noClone THEN Got(h, nh, A, HeldList(its), FALSE)
  ELSE ListClone(h, nh, A, A[its])

getItem(h, nh, A, ix, id, noClone, required) ==
  LET item == Read(ix[1], id)
  IN  IF item = 0 /\ required THEN Got(h, nh, A, NoHeld, TRUE)
      ELSE IF noClone THEN Got(h, nh, A, HeldValue(item), FALSE)
      ELSE ItemClone(h, nh, A, item)

\* #getIndexSpec(index || indexName): the position of the spec whose index
\* object is the one given (index objects are told apart by their position,
\* 0 is no object), else of the spec registered under the name; 0 when there
\* is none.  An inherited name gives no spec either: what it reads as has no
\* 'index', and the lookup in it throws.
getIndexSpec(specs, si, index, indexName) ==
  IF index # 0 THEN (IF index \in 1..Len(specs) THEN index ELSE 0)
  ELSE IF HasKey(si, indexName) THEN si[indexName]
  ELSE 0

getByIndex(h, nh, A, specs, si, ix, index, indexName, key, noClone, required, cloneAll, cloneList) ==
  LET i == getIndexSpec(specs, si, index, indexName)
      value == IF i = 0 THEN 0 ELSE Read(ix[i], key)
  IN  IF i = 0 THEN Got(h, nh, A, NoHeld, TRUE)
      ELSE IF value = 0 /\ required THEN Got(h, nh, A, NoHeld, TRUE)
      ELSE IF specs[i].relationship = ONE_TO_ONE
        THEN IF cloneAll THEN ItemClone(h, nh, A, value)
             ELSE IF noClone THEN Got(h, nh, A, HeldValue(value), FALSE)
             ELSE ItemClone(h, nh, A, value)
      ELSE IF value = 0
        THEN Got(h, nh, Put(A, NewRef(A), <<>>), HeldList(NewRef(A)), FALSE)
      ELSE IF value = InheritedValue   \* a function: no map, not iterable
        THEN IF ~cloneAll /\ ~cloneList /\ noClone
               THEN Got(h, nh, A, HeldInherited, FALSE)
             ELSE Got(h, nh, A, NoHeld, TRUE)
      ELSE IF cloneAll THEN ListMapClone(h, nh, A, A[value])
      ELSE IF cloneList THEN ListCopy(h, nh, A, A[value])
      ELSE IF noClone THEN Got(h, nh, A, HeldList(value), FALSE)
      ELSE ListMapClone(h, nh, A, A[value])

\* ---------------------------------------------------------------- calls
LeaveStore(st, hd, l) ==
  Leave(st.heap, st.nheap, st.arrs, st.items, st.indexSpecs, st.specIndex,
        st.idx, hd, l)

IndexSpec(name, indexField, relationship) ==
  [name |-> name, indexField |-> indexField, relationship |-> relationship]

\* the caller's array of object literals enters the heaps
RECURSIVE AllocAll(_, _, _, _, _)
AllocAll(h, nh, recs, i, acc) ==
  IF i > Len(recs) THEN [heap |-> h, nheap |-> nh, refs |-> acc]
  ELSE LET al == Alloc(h, nh, recs[i])
       IN  AllocAll(al.heap, al.nheap, recs, i + 1, Append(acc, al.ref))

\* addIndex for each of the specs in turn, up to the first that throws
RECURSIVE AddIndexes(_, _, _)
AddIndexes(st, more, i) ==
  IF i > Len(more) \/ st.threw THEN st
  ELSE AddIndexes(addIndex(st.heap, st.nheap, st.arrs, st.items, st.indexSpecs,
                           st.specIndex, st.idx, more[i]), more, i + 1)

constructor_CopiesItems(h, nh, A, its, kf, idIndexName) ==
  addIndex(h, nh, Put(A, NewRef(A), A[its]), NewRef(A), <<>>, EmptyObj, <<>>,
           IndexSpec("byId", kf, ONE_TO_ONE))

\* new ListManager({ items, keyField: kf, idIndexName }): the array is used
\* as it is and the primary index is added, which builds it; the name the
\* primary index is registered under is 'byId' whatever idIndexName is
constructor(h, nh, A, its, kf, idIndexName) ==
  addIndex(h, nh, A, its, <<>>, EmptyObj, <<>>, IndexSpec("byId", kf, ONE_TO_ONE))

\* The state after construction over the caller's array of recs, with the
\* indexes the store is set up with added next; the caller keeps its array
\* when kept
ConstructedOver(kf, idIndexName, recs, more, kept) ==
  \E al \in {AllocAll(EmptyObj, EmptyObj, recs, 1, <<>>)} :
  \E st0 \in {constructor(al.heap, al.nheap, Put(EmptyObj, 1, al.refs), 1, kf,
                           idIndexName)} :
  \E st \in {AddIndexes(st0, more, 1)} :
  \E n \in {NormalForm(st.heap, st.nheap, st.arrs, st.items, st.indexSpecs,
                       st.idx, IF kept THEN HeldList(1) ELSE NoHeld)} :
    /\ keyField = kf
    /\ heap = n.heap
    /\ nheap = n.nheap
    /\ arrs = n.arrs
    /\ items = n.items
    /\ indexSpecs = st.indexSpecs
    /\ specIndex = st.specIndex
    /\ idx = n.idx
    /\ held = n.held
    /\ last = LastCall("constructor", st.threw, CallArg(Undef, 0, idIndexName), Undef)
    /\ thrown = st.threw
    /\ calls = 0
    /\ file = NoFile
    /\ model = NoModel
    /\ writes = <<>>

Constructed(kf, recs, more) == ConstructedOver(kf, "byId", recs, more, FALSE)

\* the arrays a store is constructed over: records that have a key, no two
\* of them the same key ("Items must have an ID field which uniquely
\* identifies each item in the set"); key values are interchangeable, so
\* the array's records are keyed with the first key names in order
RECURSIVE SeqsUpTo(_, _)
SeqsUpTo(S, n) ==
  IF n = 0 THEN {<<>>}
  ELSE SeqsUpTo(S, n - 1)
         \cup {Append(s, x) : s \in {t \in SeqsUpTo(S, n - 1) : Len(t) = n - 1},
                              x \in S}

UniqueKeys(recs, kf) ==
  \A i, j \in 1..Len(recs) : recs[i][kf] = recs[j][kf] => i = j

InitialItems(S, kf) ==
  {recs \in SeqsUpTo(S, MaxItems) :
     UniqueKeys(recs, kf) /\ \A i \in 1..Len(recs) : recs[i][kf] = KeyNames[i]}

\* addItem(rec): the callers add records that have a key, and a key that is
\* not in the store yet (the checks "are assumed to be performed by the caller")
AddItem(rec) ==
  /\ Len(arrs[items]) < MaxItems
  /\ rec[keyField] # Undef
  /\ ~HasKey(idx[1], rec[keyField])
  /\ \E al \in {Alloc(heap, nheap, rec)} :
     \E st \in {addItem(al.heap, al.nheap, arrs, items, indexSpecs, specIndex,
                        idx, al.ref)} :
       LeaveStore(st, held, LastCall("addItem", st.threw, rec, Undef))

\* updateItem(rec); a call that throws half-way can leave the object it
\* replaced reachable, so the call is offered while the store holds no more
\* than MaxItems records
UpdateItem(rec) ==
  /\ Cardinality(DOMAIN heap) <= MaxItems
  /\ \E al \in {Alloc(heap, nheap, rec)} :
     \E st \in {updateItem(al.heap, al.nheap, arrs, items, indexSpecs,
                           specIndex, idx, keyField, al.ref)} :
       LeaveStore(st, held, LastCall("updateItem", st.threw, rec, Undef))

DeleteItem(rec) ==
  \E st \in {deleteItem(heap, nheap, arrs, items, indexSpecs, specIndex, idx,
                        keyField, rec)} :
    LeaveStore(st, held, LastCall("deleteItem", st.threw, rec, Undef))

Rebuild(i) ==
  /\ i \in 1..Len(indexSpecs)
  /\ \E st \in {rebuild(heap, nheap, arrs, items, indexSpecs, specIndex, idx, i)} :
       LeaveStore(st, held, LastCall("rebuild", st.threw, CallArg(Undef, i, Undef), Undef))

RebuildAll ==
  \E st \in {rebuildAll(heap, nheap, arrs, items, indexSpecs, specIndex, idx,
                        keyField)} :
    LeaveStore(st, held, LastCall("rebuildAll", st.threw, NoRec, Undef))

Truncate ==
  \E st \in {truncate(heap, nheap, arrs, items, indexSpecs, specIndex, idx,
                      keyField)} :
    LeaveStore(st, held, LastCall("truncate", st.threw, NoRec, Undef))

AddIndex(indexSpec) ==
  /\ Len(indexSpecs) < MaxIndexes
  /\ \E st \in {addIndex(heap, nheap, arrs, items, indexSpecs, specIndex, idx,
                         indexSpec)} :
       LeaveStore(st, held, LastCall("addIndex", st.threw, NoRec, Undef))

\* a retrieval leaves the store's variables alone; the caller keeps what it
\* held when the call throws
LeaveGot(g, l) ==
  Leave(g.heap, g.nheap, g.arrs, items, indexSpecs, specIndex, idx,
        IF g.threw THEN held ELSE g.held, l)

GetItems(cloneAll, cloneList, noClone) ==
  \E g \in {getItems(heap, nheap, arrs, items, cloneAll, cloneList, noClone)} :
    LeaveGot(g, LastCall("getItems", g.threw, NoRec, Undef))

GetItem(id, noClone, required) ==
  \E g \in {getItem(heap, nheap, arrs, idx, id, noClone, required)} :
    LeaveGot(g, LastCall("getItem", g.threw, NoRec, Undef))

GetByIndex(index, indexName, key, noClone, required, cloneAll, cloneList) ==
  \E g \in {getByIndex(heap, nheap, arrs, indexSpecs, specIndex, idx, index,
                       indexName, key, noClone, required, cloneAll, cloneList)} :
    LeaveGot(g, LastCall("getByIndex", g.threw, NoRec, Undef))

\* What the caller does with the value it holds: assigns a field of a
\* record, assigns the data of a record's nested object, removes the last
\* element of a list.
HeldRecords ==
  IF held.kind = "item" /\ held.v # 0 THEN {held.v}
  ELSE IF held.kind = "list" THEN Range(arrs[held.v])
  ELSE {}

LeaveMutated(h, nh, A) ==
  Leave(h, nh, A, items, indexSpecs, specIndex, idx, held,
        LastCall("mutate", FALSE, NoRec, Undef))

SetHeldField(f, v) ==
  \E r \in HeldRecords :
    /\ heap[r][f] # v
    /\ LeaveMutated([heap EXCEPT ![r][f] = v], nheap, arrs)

SetHeldNested(d) ==
  \E r \in HeldRecords :
    /\ heap[r].nestedObj # 0
    /\ nheap[heap[r].nestedObj] # d
    /\ LeaveMutated(heap, [nheap EXCEPT ![heap[r].nestedObj] = d], arrs)

PopHeld ==
  /\ held.kind = "list"
  /\ Len(arrs[held.v]) > 0
  /\ LeaveMutated(heap, nheap,
                  [arrs EXCEPT ![held.v] = SubSeq(@, 1, Len(@) - 1)])

\* ------------------------------------------------------- specification 1
\* A store keyed by 'id' with ONE_TO_MANY indexes on 'type', named and
\* anonymous; the arguments of updateItem and deleteItem carry any 'type',
\* or none, and their key may be a name that object literals inherit.
TypedRecs == {Rec(i, Undef, t, 0) : i \in KeyVals, t \in TypeVals}

TypedUpdates == {Rec(i, Undef, t, 0) : i \in KeyVals \cup Inherited, t \in TypeVals}

TypedArgs ==
  {Rec(i, Undef, t, 0) : i \in KeyVals \cup Inherited, t \in TypeVals \cup {Undef}}

TypeIndexSpecs == {IndexSpec("byType", "type", ONE_TO_MANY)}

\* the indexes a store is set up with: none, or the first of a set of specs
Setups(S) == {<<>>} \cup {<<indexSpec>> : indexSpec \in S}

Init ==
  \E recs \in InitialItems(TypedRecs, "id"), more \in Setups(TypeIndexSpecs) :
    Constructed("id", recs, more)

Next ==
  \/ \E rec \in TypedRecs : AddItem(rec)
  \/ \E rec \in TypedUpdates : UpdateItem(rec)
  \/ \E rec \in TypedArgs : DeleteItem(rec)
  \/ \E i \in 1..MaxIndexes : Rebuild(i)
  \/ RebuildAll
  \/ Truncate
  \/ \E indexSpec \in TypeIndexSpecs : AddIndex(indexSpec)

Spec == Init /\ [][Next]_vars

\* ------------------------------------------------- what a state shows
\* the master sequence, the records of an index bucket, and the store as a
\* whole: the state without the caller's value, in normal form
Master == arrs[items]

MasterKeys == {heap[Master[p]][keyField] : p \in 1..Len(Master)}

IsOneToMany(i) == indexSpecs[i].relationship = ONE_TO_MANY

IsOneToOne(i) == indexSpecs[i].relationship = ONE_TO_ONE

FieldOf(i) == indexSpecs[i].indexField

Bucket(i, k) == arrs[idx[i][k]]

\* how many entries of a sequence of references have the key kv
CountKey(s, kv) == Cardinality({j \in 1..Len(s) : heap[s[j]][keyField] = kv})

StoreOf(h, nh, A, its, specs, si, ix) ==
  [specs |-> specs, names |-> si,
   store |-> NormalForm(h, nh, A, its, specs, ix, NoHeld)]

StoreState == StoreOf(heap, nheap, arrs, items, indexSpecs, specIndex, idx)

\* the store as the step leaves it
StoreStateAfter ==
  StoreOf(heap', nheap', arrs', items', indexSpecs', specIndex', idx')

\* ------------------------------------------------------------------ C1
\* C1: after any sequence of successful calls, every record of the master
\* sequence has exactly one entry with its key in the bucket of its field
\* value in every ONE_TO_MANY index, and no bucket holds an entry whose key
\* is not in the master sequence.
C1_OneToManyIntegrity ==
  ~thrown =>
    \A i \in 1..Len(indexSpecs) : IsOneToMany(i) =>
      /\ \A p \in 1..Len(Master) :
           /\ HasKey(idx[i], heap[Master[p]][FieldOf(i)])
           /\ CountKey(Bucket(i, heap[Master[p]][FieldOf(i)]),
                       heap[Master[p]][keyField]) = 1
      /\ \A k \in DOMAIN idx[i] : \A j \in 1..Len(Bucket(i, k)) :
           heap[Bucket(i, k)[j]][keyField] \in MasterKeys

\* ------------------------------------------------------------------ C3
\* C3: after every completed call no index holds a key that is the field
\* value of no record of the master sequence; a bucket that lost its last
\* record is gone from the index, not left as an empty list.
C3_NoKeyWithoutRecords ==
  ~last.threw =>
    \A i \in 1..Len(indexSpecs) : \A k \in DOMAIN idx[i] :
      \E p \in 1..Len(Master) : heap[Master[p]][FieldOf(i)] = k

\* ------------------------------------------------------------------ C5
\* what deleteItem(rec) would make of the store as it is
DeleteOutcome(rec) ==
  deleteItem(heap, nheap, arrs, items, indexSpecs, specIndex, idx, keyField, rec)

\* the arguments a caller can pass for one record: any value, or none, in
\* every field that is not the key
SameKey(r1, r2) == r1[keyField] = r2[keyField]

\* C5: the state deleteItem(record) leaves depends only on record's key:
\* two arguments with the same key and different, missing or stale values
\* in the indexed fields leave the same state, and no bucket other than the
\* one that holds the stored record is altered.
C5_DeleteReadsOnlyTheKey ==
  \A r1, r2 \in TypedArgs :
    (SameKey(r1, r2) /\ HasKey(idx[1], r1[keyField])) =>
      /\ DeleteOutcome(r1) = DeleteOutcome(r2)
      /\ \A i \in 2..Len(indexSpecs) : \A k \in DOMAIN idx[i] :
           (IsOneToMany(i) /\ k # heap[idx[1][r1[keyField]]][FieldOf(i)]) =>
             /\ HasKey(DeleteOutcome(r1).idx[i], k)
             /\ DeleteOutcome(r1).arrs[DeleteOutcome(r1).idx[i][k]] = Bucket(i, k)

\* ------------------------------------------------------------------ C6
\* getByIndex on a ONE_TO_MANY index, without 'required': the bucket, or an
\* empty list for a key the index does not have
BucketIn(ix, A, i, k) == IF HasKey(ix[i], k) THEN A[ix[i][k]] ELSE <<>>

BucketOrEmpty(i, k) == BucketIn(idx, arrs, i, k)

CountKeyIn(h, s, kv) == Cardinality({j \in 1..Len(s) : h[s[j]][keyField] = kv})

SameFields(r1, r2) == \A f \in Fields : r1[f] = r2[f]

PositionsOf(s, r) == {j \in 1..Len(s) : s[j] = r}

\* C6: after updateItem(replacement), where the stored record had v in the
\* indexed field and the replacement has w: if w # v the bucket of v holds no
\* record with that key any more and the bucket of w holds the replacement
\* exactly once; if w = v the replacement stands where the old record stood
\* in the bucket; the primary index maps the key to the replacement.
C6_UpdateStep ==
  LET arg == last'.arg
      old == idx[1][arg[keyField]]
      new == idx'[1][arg[keyField]]
  IN  /\ HasKey(idx'[1], arg[keyField])
      /\ SameFields(heap'[new], arg)
      /\ \A i \in 2..Len(indexSpecs) : IsOneToMany(i) =>
           LET v == heap[old][FieldOf(i)]
               w == arg[FieldOf(i)]
               vBefore == BucketOrEmpty(i, v)
               vAfter == BucketIn(idx', arrs', i, v)
               wAfter == BucketIn(idx', arrs', i, w)
           IN  /\ w # v => CountKeyIn(heap', vAfter, arg[keyField]) = 0
               /\ w # v => Cardinality(PositionsOf(wAfter, new)) = 1
               /\ w # v => CountKeyIn(heap', wAfter, arg[keyField]) = 1
               /\ w = v => /\ PositionsOf(vBefore, old) # {}
                           /\ PositionsOf(vAfter, new) = PositionsOf(vBefore, old)
                           /\ Len(vAfter) = Len(vBefore)

C6_UpdateReindexes ==
  [][(last'.op = "updateItem" /\ ~last'.threw
        /\ HasKey(idx[1], last'.arg[keyField])) => C6_UpdateStep]_vars

\* ------------------------------------------------------------------ C7
\* C7: after deleteItem of a record whose key is in the store, getItem finds
\* nothing for the key, the master sequence has no record with it, and every
\* ONE_TO_MANY index returns for each key exactly the records of the master
\* sequence that have that field value.
C7_AfterDelete ==
  (last.op = "deleteItem" /\ ~last.threw /\ last.arg[keyField] \in KeyVals) =>
    /\ ~HasKey(idx[1], last.arg[keyField])
    /\ last.arg[keyField] \notin MasterKeys
    /\ \A i \in 2..Len(indexSpecs) : IsOneToMany(i) =>
         /\ \A p \in 1..Len(Master) :
              CountKey(BucketOrEmpty(i, heap[Master[p]][FieldOf(i)]),
                       heap[Master[p]][keyField]) = 1
         /\ \A k \in DOMAIN idx[i] : \A j \in 1..Len(Bucket(i, k)) :
              /\ heap[Bucket(i, k)[j]][FieldOf(i)] = k
              /\ \E p \in 1..Len(Master) : Master[p] = Bucket(i, k)[j]

\* ------------------------------------------------------------------ C8
\* C8: updateItem and deleteItem with a key the primary index does not have
\* throw, and leave the master sequence and every index as they were.
C8_UnknownKeyRejected ==
  [][((last'.op \in {"updateItem", "deleteItem"})
        /\ ~HasKey(idx[1], last'.arg[keyField]))
       => (last'.threw /\ StoreStateAfter = StoreState)]_vars

\* ------------------------------------------------------- specification 2
\* A store keyed by 'id' with a ONE_TO_ONE index on 'name'; no two live
\* records have the same name; deleteItem is given the stored record
\* itself. Index specs with an unknown relationship or
\* with none are offered as well.
NameVals == KeyVals \cup {"e"}

NamedRecs == {Rec(i, n, Undef, 0) : i \in KeyVals, n \in NameVals}

UniqueNames(recs) ==
  \A i, j \in 1..Len(recs) : recs[i].name = recs[j].name => i = j

\* no live record but the one with rec's key has rec's name
NameIsFree(rec) ==
  \A p \in 1..Len(arrs[items]) :
    heap[arrs[items][p]].name = rec.name => heap[arrs[items][p]].id = rec.id

\* rec is the value of the stored record with its key, if there is one
IsStoredOrNew(rec) ==
  HasKey(idx[1], rec[keyField]) => heap[idx[1][rec[keyField]]] = rec

NameIndexSpecs ==
  {IndexSpec("byName", "name", ONE_TO_ONE),
   IndexSpec(Undef, "name", BadRelationship),
   IndexSpec("byName", "name", NoRelationship)}

InitOneToOne ==
  \E recs \in {r \in InitialItems(NamedRecs, "id") : UniqueNames(r)},
     more \in Setups({IndexSpec("byName", "name", ONE_TO_ONE)}) :
    Constructed("id", recs, more)

NextOneToOne ==
  \/ \E rec \in NamedRecs : NameIsFree(rec) /\ AddItem(rec)
  \/ \E rec \in NamedRecs : NameIsFree(rec) /\ UpdateItem(rec)
  \/ \E rec \in NamedRecs : IsStoredOrNew(rec) /\ DeleteItem(rec)
  \/ \E indexSpec \in NameIndexSpecs : AddIndex(indexSpec)

SpecOneToOne == InitOneToOne /\ [][NextOneToOne]_vars

\* ------------------------------------------------------------------ C2
\* C2: after any sequence of successful calls on a store with a secondary
\* ONE_TO_ONE index on a field F whose values are unique among the live
\* records, index[R.F] is R for every record R of the master sequence, and
\* the index has no key that is not the F value of a live record.
C2_OneToOneIntegrity ==
  ~thrown =>
    \A i \in 2..Len(indexSpecs) : IsOneToOne(i) =>
      /\ \A p \in 1..Len(Master) :
           /\ HasKey(idx[i], heap[Master[p]][FieldOf(i)])
           /\ idx[i][heap[Master[p]][FieldOf(i)]] = Master[p]
      /\ \A k \in DOMAIN idx[i] :
           \E p \in 1..Len(Master) : heap[Master[p]][FieldOf(i)] = k

\* ------------------------------------------------------------------ C4
\* C4: an addItem, updateItem, deleteItem or addIndex call that throws
\* leaves the master sequence and every index as they were before the call.
C4_FailedCallChangesNothing ==
  [][((last'.op \in {"addItem", "updateItem", "deleteItem", "addIndex"})
        /\ last'.threw)
       => StoreStateAfter = StoreState]_vars

\* ------------------------------------------------------- specification 3
\* A store keyed by 'name' whose records carry no 'id', with a ONE_TO_MANY
\* index on 'type'.
KeyedRecs == {Rec(Undef, n, t, 0) : n \in KeyVals, t \in TypeVals}

InitKey ==
  \E recs \in InitialItems(KeyedRecs, "name"), more \in Setups(TypeIndexSpecs) :
    Constructed("name", recs, more)

NextKey ==
  \/ \E rec \in KeyedRecs : AddItem(rec)
  \/ \E rec \in KeyedRecs : UpdateItem(rec)
  \/ \E rec \in KeyedRecs : DeleteItem(rec)
  \/ \E indexSpec \in TypeIndexSpecs : AddIndex(indexSpec)
  \/ Truncate

SpecKey == InitKey /\ [][NextKey]_vars

\* ------------------------------------------------------------------ C9
\* the values of the records of the master sequence, in order
Contents(h, s) == [p \in 1..Len(s) |-> h[s[p]]]

\* C9: whatever the key field is called, updateItem replaces exactly the
\* slot of the master sequence whose key equals the replacement's, length
\* and every other position unchanged, and deleteItem removes exactly the
\* record with that key, the others keeping their order.
C9_UpdateStep ==
  /\ Len(Master') = Len(Master)
  /\ \A p \in 1..Len(Master) :
       IF heap[Master[p]][keyField] = last'.arg[keyField]
         THEN SameFields(heap'[Master'[p]], last'.arg)
       ELSE heap'[Master'[p]] = heap[Master[p]]

C9_DeleteStep ==
  Contents(heap', Master')
    = SelectSeq(Contents(heap, Master),
                LAMBDA r : r[keyField] # last'.arg[keyField])

C9_KeyFieldDecides ==
  [][(~last'.threw /\ ~thrown) =>
       /\ last'.op = "updateItem" => C9_UpdateStep
       /\ last'.op = "deleteItem" => C9_DeleteStep]_vars

\* ------------------------------------------------------- specification 4
\* A store keyed by 'id' whose records have a nested object, with or
\* without a ONE_TO_MANY index on 'type'; the caller retrieves with the default
\* options and changes what it was given.
NestedRecs == {Rec(i, Undef, t, 1) : i \in KeyVals, t \in TypeVals}

InitCopy ==
  \E recs \in InitialItems(NestedRecs, "id"), more \in Setups(TypeIndexSpecs) :
    Constructed("id", recs, more)

NextCopy ==
  \/ GetItems(FALSE, FALSE, FALSE)
  \/ \E id \in KeyVals : GetItem(id, FALSE, FALSE)
  \/ \E i \in 1..MaxIndexes, key \in KeyVals \cup TypeVals :
       GetByIndex(i, Undef, key, FALSE, FALSE, TRUE, FALSE)
  \/ \E v \in TypeVals : SetHeldField("type", v)
  \/ \E d \in DataVals : SetHeldNested(d)
  \/ PopHeld

SpecCopy == InitCopy /\ [][NextCopy]_vars

\* ----------------------------------------------------------------- C10
\* what a caller can read in a retrieved value: the fields of the record
\* and the data of its nested object, for a list the same of every element
ItemValue(h, nh, r) ==
  IF r = 0 THEN <<Undef>>
  ELSE <<[h[r] EXCEPT !.nestedObj = 0],
         IF h[r].nestedObj = 0 THEN Undef ELSE nh[h[r].nestedObj]>>

Returned(g) ==
  IF g.threw THEN <<"throws">>
  ELSE IF g.held.kind = "item" THEN ItemValue(g.heap, g.nheap, g.held.v)
  ELSE [p \in 1..Len(g.arrs[g.held.v]) |->
          ItemValue(g.heap, g.nheap, g.arrs[g.held.v][p])]

\* what the retrievals with the default options return from a store
DefaultGetItem(h, nh, A, ix, id) ==
  The({Returned(g) : g \in {getItem(h, nh, A, ix, id, FALSE, FALSE)}})

DefaultGetItems(h, nh, A, its) ==
  The({Returned(g) : g \in {getItems(h, nh, A, its, FALSE, FALSE, FALSE)}})

DefaultGetByIndex(h, nh, A, specs, si, ix, i, key) ==
  The({Returned(g) :
         g \in {getByIndex(h, nh, A, specs, si, ix, i, Undef, key,
                           FALSE, FALSE, TRUE, FALSE)}})

Requests ==
  {"default", "noClone", "cloneList", "noCloneNotAll", "cloneListNotAll"}

OptionsOf(request) ==
  CASE request = "default" -> EmptyObj
    [] request = "noClone" -> [noClone |-> TRUE]
    [] request = "cloneList" -> [cloneList |-> TRUE]
    [] request = "cloneAll" -> [cloneAll |-> TRUE]
    [] request = "required" -> [required |-> TRUE]
    [] request = "noCloneNotAll" -> [noClone |-> TRUE, cloneAll |-> FALSE]
    [] request = "cloneListNotAll" -> [cloneList |-> TRUE, cloneAll |-> FALSE]

\* a destructured option: its value, or the default of the parameter list
Opt(o, name, default) == IF name \in DOMAIN o THEN o[name] ELSE default

\* getItems({ cloneAll, cloneList, noClone } = {})
getItemsWith(h, nh, A, its, o) ==
  getItems(h, nh, A, its, Opt(o, "cloneAll", FALSE), Opt(o, "cloneList", FALSE),
           Opt(o, "noClone", FALSE))

\* getItem(id, { noClone = false, required = false })
getItemWith(h, nh, A, ix, id, o) ==
  getItem(h, nh, A, ix, id, Opt(o, "noClone", FALSE), Opt(o, "required", FALSE))

\* getByIndex({ index, indexName, key, noClone = false, required = false,
\*              cloneAll = true, cloneList })
getByIndexWith(h, nh, A, specs, si, ix, index, indexName, key, o) ==
  getByIndex(h, nh, A, specs, si, ix, index, indexName, key,
             Opt(o, "noClone", FALSE), Opt(o, "required", FALSE),
             Opt(o, "cloneAll", TRUE), Opt(o, "cloneList", FALSE))

GetItemsAs(request) ==
  \E g \in {getItemsWith(heap, nheap, arrs, items, OptionsOf(request))} :
    LeaveGot(g, LastCall("getItems", g.threw, NoRec, request))

GetItemAs(id, request) ==
  \E g \in {getItemWith(heap, nheap, arrs, idx, id, OptionsOf(request))} :
    LeaveGot(g, LastCall("getItem", g.threw, CallArg(id, 0, Undef), request))

GetByIndexAs(index, indexName, key, request) ==
  \E g \in {getByIndexWith(heap, nheap, arrs, indexSpecs, specIndex, idx, index,
                           indexName, key, OptionsOf(request))} :
    LeaveGot(g, LastCall("getByIndex", g.threw,
                         CallArg(key, index, indexName), request))

\* the caller pushes an object of its own onto the list it holds
PushHeld(rec) ==
  /\ held.kind = "list"
  /\ Len(arrs[held.v]) <= MaxItems
  /\ \E al \in {Alloc(heap, nheap, rec)} :
       LeaveMutated(al.heap, al.nheap,
                    [arrs EXCEPT ![held.v] = Append(@, al.ref)])

\* A store keyed by 'id', with or without a ONE_TO_MANY index on 'type';
\* the caller retrieves under every request, by index handle and by index
\* name, and adds to or removes from a list it was given.
IndexNames == <<"byId", "byType">>

InitShare ==
  \E recs \in InitialItems(TypedRecs, "id"), more \in Setups(TypeIndexSpecs) :
    Constructed("id", recs, more)

\* the keys a caller looks up in an index: the first and the last id in the
\* primary index, types in the others
KeysFor(i) == IF i = 1 THEN {KeyNames[1], KeyNames[NumKeys]} ELSE TypeVals

NextShare ==
  \/ \E request \in Requests : GetItemsAs(request)
  \/ \E id \in KeysFor(1), request \in {"default", "noClone"} :
       GetItemAs(id, request)
  \/ \E i \in 1..MaxIndexes, request \in {"noClone", "cloneList"} :
       \E key \in KeysFor(i) : GetByIndexAs(i, Undef, key, request)
  \/ \E i \in 1..2, request \in {"noCloneNotAll", "cloneListNotAll"} :
       \E key \in KeysFor(i) : GetByIndexAs(0, IndexNames[i], key, request)
  \/ PopHeld
  \/ \E rec \in {Rec("e", Undef, "foo", 0)} : PushHeld(rec)

SpecShare == InitShare /\ [][NextShare]_vars

\* ----------------------------------------------------------------- C11
\* C11: getItem(key, {noClone: true}) returns the very object the primary
\* index holds for the key; getItems({noClone: true}) returns the master
\* sequence array itself; getItems({cloneList: true}) returns another array
\* whose elements are the stored objects; and when the caller then adds to
\* or removes from that array, the master sequence stays as it was.
C11_LiveReferences ==
  [][/\ (last'.op = "getItem" /\ last'.key = "noClone" /\ ~last'.threw) =>
          /\ held'.kind = "item"
          /\ held'.v = Read(idx'[1], last'.arg.id)
     /\ (last'.op = "getItems" /\ last'.key = "noClone") =>
          /\ ~last'.threw
          /\ held' = HeldList(items')
     /\ (last'.op = "getItems" /\ last'.key = "cloneList") =>
          /\ ~last'.threw
          /\ held'.kind = "list"
          /\ held'.v # items'
          /\ arrs'[held'.v] = arrs'[items']
          /\ StoreStateAfter = StoreState
     /\ (last.op = "getItems" /\ last.key = "cloneList" /\ last'.op = "mutate") =>
          /\ arrs'[held'.v] # arrs[held.v]
          /\ StoreStateAfter = StoreState]_vars

\* the caller has popped the list that getItems({cloneList: true}) gave it,
\* and the master sequence still has its records
C11_Witness ==
  /\ last.op = "mutate"
  /\ held.kind = "list"
  /\ held.v # items
  /\ Len(Master) = 2
  /\ Len(arrs[held.v]) = 1
  /\ arrs[held.v][1] = Master[1]

\* ----------------------------------------------------------------- C12
\* the position of the spec a getByIndex call named, by handle or by name
CalledIndex(arg) == getIndexSpec(indexSpecs, specIndex, arg.nestedObj, arg.name)

\* C12: getByIndex called with noClone: true and no other clone option
\* returns the stored record itself (ONE_TO_ONE) or the stored bucket array
\* itself (ONE_TO_MANY); called with cloneList: true and no other clone
\* option on a ONE_TO_MANY index it returns another array whose elements are
\* the stored objects.
C12_RequestedModeApplied ==
  [][(last'.op = "getByIndex" /\ ~last'.threw /\ CalledIndex(last'.arg) # 0
        /\ HasKey(idx[CalledIndex(last'.arg)], last'.arg.id)) =>
       LET i == CalledIndex(last'.arg)
           stored == idx'[i][last'.arg.id]
       IN  /\ (last'.key = "noClone" /\ IsOneToOne(i)) => held' = HeldItem(stored)
           /\ (last'.key = "noClone" /\ IsOneToMany(i)) => held' = HeldList(stored)
           /\ (last'.key = "cloneList" /\ IsOneToMany(i)) =>
                /\ held'.kind = "list"
                /\ held'.v # stored
                /\ arrs'[held'.v] = arrs'[stored]]_vars

\* ----------------------------------------------------------------- C13
\* a record of the master sequence has the value k in the field of index i
HasLive(i, k) == \E p \in 1..Len(Master) : heap[Master[p]][FieldOf(i)] = k

GetByIndexNow(i, key, request) ==
  getByIndexWith(heap, nheap, arrs, indexSpecs, specIndex, idx, i, Undef, key,
                 OptionsOf(request))

\* C13 (specification Spec): in every store state, getByIndex on a
\* ONE_TO_MANY index with required: true throws exactly when no record of
\* the master sequence has the key as its field value, and without
\* 'required' it returns an empty list for such a key.
C13_RequiredFailsIffNoRecord ==
  \A i \in 2..Len(indexSpecs), k \in TypeVals :
    IsOneToMany(i) =>
      /\ GetByIndexNow(i, k, "required").threw <=> ~HasLive(i, k)
      /\ ~HasLive(i, k) =>
           /\ ~GetByIndexNow(i, k, "default").threw
           /\ Returned(GetByIndexNow(i, k, "default")) = <<>>

\* ------------------------------------------------------- specification 6
\* The facades over the ListManager: ItemManager and Resources.
\* defaultIdNormalizer: a string key is lower-cased
LowerCase == [A |-> "a"]

idNormalizer(id) == IF id \in DOMAIN LowerCase THEN LowerCase[id] ELSE id

\* has(name): !!this.#indexById[name]
has(ix, name) == Read(ix[1], name) # 0

\* Resources constructor: item.id = item.id || this.idNormalizer(item[keyField])
WithId(rec, kf) ==
  IF rec.id = Undef THEN [rec EXCEPT !.id = idNormalizer(rec[kf])] ELSE rec

\* ItemManager.add(data): data is the caller's object, copied by ensureRaw
managerAdd(h, nh, A, its, specs, si, ix, kf, data) ==
  IF data[kf] = Undef THEN Store(h, nh, A, its, specs, si, ix, TRUE)
  ELSE IF kf # "id" /\ data.id # Undef
    THEN Store(h, nh, A, its, specs, si, ix, TRUE)
  ELSE IF has(ix, WithId(data, kf).id)
    THEN Store(h, nh, A, its, specs, si, ix, TRUE)
  ELSE The({addItem(al.heap, al.nheap, A, its, specs, si, ix, al.ref) :
              al \in {Alloc(h, nh, WithId(data, kf))}})

\* Resources.add(data)
resourcesAdd(h, nh, A, its, specs, si, ix, kf, data) ==
  IF has(ix, WithId(data, kf).id)
    THEN Store(h, nh, A, its, specs, si, ix, TRUE)
  ELSE The({addItem(al.heap, al.nheap, A, its, specs, si, ix, al.ref) :
              al \in {Alloc(h, nh, WithId(data, kf))}})

ManagerAdd(data) ==
  /\ Len(arrs[items]) <= MaxItems
  /\ \E st \in {managerAdd(heap, nheap, arrs, items, indexSpecs, specIndex, idx,
                           keyField, data)} :
       LeaveStore(st, held, LastCall("add", st.threw, data, "ItemManager"))

ResourcesAdd(data) ==
  /\ Len(arrs[items]) <= MaxItems
  /\ \E st \in {resourcesAdd(heap, nheap, arrs, items, indexSpecs, specIndex, idx,
                             keyField, data)} :
       LeaveStore(st, held, LastCall("add", st.threw, data, "Resources"))

\* ----------------------------------------------------- facade retrievals
\* new itemClass(data): the Item keeps the object it is given (this.#data =
\* data), throws when the key field is missing and gives the object an id
\* when it has none.  The heap the construction leaves behind.
createItem(h, kf, data) ==
  [heap |-> IF h[data][kf] # Undef /\ h[data].id = Undef
              THEN [h EXCEPT ![data].id = idNormalizer(h[data][kf])]
            ELSE h,
   threw |-> h[data][kf] = Undef]

\* #dataToItem(data, {}): data is what an index lookup gave
dataToItem(h, nh, A, kf, data) ==
  IF data = 0 THEN Got(h, nh, A, HeldItem(0), FALSE)
  ELSE IF data = InheritedValue
    THEN Got(h, nh, A, HeldInherited, FieldAt(h, data, kf) = Undef)
  ELSE The({Got(c.heap, nh, A, IF c.threw THEN NoHeld ELSE HeldItem(data), c.threw) :
              c \in {createItem(h, kf, data)}})

\* data.map((data) => this.createItem(data)), up to the first that throws
RECURSIVE CreateItems(_, _, _, _)
CreateItems(h, kf, s, i) ==
  IF i > Len(s) THEN [heap |-> h, threw |-> FALSE]
  ELSE The({IF c.threw THEN c ELSE CreateItems(c.heap, kf, s, i + 1) :
              c \in {createItem(h, kf, s[i])}})

\* #dataToList(data, {}): a new array of Items over the objects of data
dataToList(h, nh, A, kf, s) ==
  The({IF c.threw THEN Got(c.heap, nh, A, NoHeld, TRUE)
       ELSE ListCopy(c.heap, nh, A, s) :
         c \in {CreateItems(h, kf, s, 1)}})

\* the order localeCompare puts the key values in
CollationOrder == <<"a", "A", "b", "c", "d", "e">>

\* resultItems.sort(fieldSort(field)): Array.prototype.sort is stable
SortByField(h, s, field) ==
  Flatten([j \in 1..Len(CollationOrder) |->
             SelectSeq(s, LAMBDA r : h[r][field] = CollationOrder[j])], 1)

\* get(id)
managerGet(h, nh, A, ix, kf, id) == dataToItem(h, nh, A, kf, Read(ix[1], id))

\* list(): the master sequence is unrolled into a new array, its objects
\* become Items, and the result is sorted on the key field
managerList(h, nh, A, its, kf) ==
  The({IF g.threw THEN g
       ELSE Got(g.heap, g.nheap,
                Put(g.arrs, g.held.v, SortByField(g.heap, g.arrs[g.held.v], kf)),
                g.held, FALSE) :
         g \in {dataToList(h, nh, A, kf, A[its])}})

\* getByIndex(indexName, key): the ListManager is asked with noClone: true
managerGetByIndex(h, nh, A, specs, si, ix, kf, indexName, key) ==
  The({IF g.threw THEN g
       ELSE IF g.held.kind = "list"
         THEN dataToList(g.heap, g.nheap, g.arrs, kf, g.arrs[g.held.v])
       ELSE IF g.held.kind = "item"
         THEN dataToItem(g.heap, g.nheap, g.arrs, kf, g.held.v)
       ELSE dataToItem(g.heap, g.nheap, g.arrs, kf, InheritedValue) :
         g \in {getByIndexWith(h, nh, A, specs, si, ix, 0, indexName, key,
                               OptionsOf("noClone"))}})

\* update(item): ensureRaw takes a copy of the Item's data, the ListManager
\* replaces the stored record by it, and get(id) gives the result
managerUpdate(h, nh, A, its, specs, si, ix, kf, item) ==
  The({The({IF st.threw THEN [store |-> st, got |-> Got(st.heap, st.nheap, st.arrs, NoHeld, TRUE)]
            ELSE [store |-> st,
                  got |-> managerGet(st.heap, st.nheap, st.arrs, st.idx, kf,
                                     st.heap[c.ref][kf])] :
              st \in {updateItem(c.heap, c.nheap, A, its, specs, si, ix, kf, c.ref)}}) :
         c \in {structuredClone(h, nh, item)}})

\* a facade retrieval can give stored objects an id, so it leaves the
\* heaps it yields and the caller's value
ManagerGet(id) ==
  \E g \in {managerGet(heap, nheap, arrs, idx, keyField, id)} :
    LeaveGot(g, LastCall("get", g.threw, CallArg(id, 0, Undef), "ItemManager"))

ManagerList ==
  \E g \in {managerList(heap, nheap, arrs, items, keyField)} :
    LeaveGot(g, LastCall("list", g.threw, NoRec, "ItemManager"))

ManagerGetByIndex(indexName, key) ==
  \E g \in {managerGetByIndex(heap, nheap, arrs, indexSpecs, specIndex, idx,
                              keyField, indexName, key)} :
    LeaveGot(g, LastCall("getByIndex", g.threw, CallArg(key, 0, indexName),
                         "ItemManager"))

\* the caller passes an Item it holds to update()
ManagerUpdate ==
  /\ Cardinality(DOMAIN heap) <= MaxItems + 1
  /\ \E item \in HeldRecords :
     \E u \in {managerUpdate(heap, nheap, arrs, items, indexSpecs, specIndex, idx,
                             keyField, item)} :
       Leave(u.got.heap, u.got.nheap, u.got.arrs, u.store.items,
             u.store.indexSpecs, u.store.specIndex, u.store.idx,
             IF u.got.threw THEN held ELSE u.got.held,
             LastCall("update", u.got.threw, heap[item], "ItemManager"))

\* itemConfig.allowSet: the fields a caller may assign on an Item
allowSet == {"type"}

\* item[f] = v on an Item the caller holds: handler.set assigns the field of
\* the Item's data when the field is in allowSet
SetItemField(f, v) == f \in allowSet /\ SetHeldField(f, v)

\* the values of the key field: the keys, and one in upper case
FacadeKeys == KeyVals \cup DOMAIN LowerCase

\* the caller's objects: the key in the key field, no 'id' unless it is the
\* key field
FacadeRecs(kf) ==
  {[Rec(Undef, Undef, t, 0) EXCEPT ![kf] = k] : k \in FacadeKeys, t \in TypeVals}

\* #addIndexes: an index is named after its field
FacadeIndexSpecs == {IndexSpec("type", "type", ONE_TO_MANY)}

RECURSIVE WithIds(_, _)
WithIds(recs, kf) ==
  IF recs = <<>> THEN <<>>
  ELSE <<WithId(Head(recs), kf)>> \o WithIds(Tail(recs), kf)

\* the items a Resources is constructed over: the constructor gives each its
\* id and throws when two have the same id
FacadeItems(kf) ==
  {WithIds(recs, kf) : recs \in {s \in SeqsUpTo(FacadeRecs(kf), MaxItems) :
                                   UniqueKeys(WithIds(s, kf), "id")}}

InitFacade ==
  \E kf \in {"id", "name"} :
    \E recs \in FacadeItems(kf), more \in Setups(FacadeIndexSpecs) :
      Constructed(kf, recs, more)

NextFacade ==
  \/ \E data \in FacadeRecs(keyField) : ManagerAdd(data)
  \/ \E data \in FacadeRecs(keyField) : ResourcesAdd(data)
  \/ \E id \in FacadeKeys : ManagerGet(id)
  \/ ManagerList
  \/ \E key \in TypeVals : ManagerGetByIndex("type", key)
  \/ ManagerUpdate
  \/ \E v \in TypeVals : SetItemField("type", v)

SpecFacade == InitFacade /\ [][NextFacade]_vars

\* ----------------------------------------------------------------- C14
\* C14: add through a facade, with a record whose key-field value is that of
\* a record of the master sequence, throws, and the master sequence and the
\* indexes stay as they were: whatever the key field and with the default
\* lower-casing normalizer.
C14_DuplicateAddRejected ==
  [][(last'.op = "add" /\ last'.arg[keyField] \in MasterKeys) =>
       (last'.threw /\ StoreStateAfter = StoreState)]_vars

\* C15: assigning an allowSet field of an Item that get, list or getByIndex
\* handed out changes nothing of the store: the master sequence, its
\* records and every index are after the assignment what they were before
\* it, so that a later get/list/getByIndex returns what it returned before.
C15_HandedOutItemsAreSafe ==
  [][(last'.op = "mutate") => StoreStateAfter = StoreState]_vars

\* ------------------------------------------------------- specification 7
\* A store keyed by 'id' whose records carry their key as 'name' too, so
\* that 'name' is unique, and a 'type'.  The callers add indexes of both
\* relationships, named and anonymous, and specs with an unknown
\* relationship or lacking a required field; they keep the index objects
\* addIndex and getIndex return.
\* The index object of a spec is created once, in addIndex, and no code
\* assigns a spec's 'index' again: an index object is identified with the
\* position of its spec, and what it holds is idx at that position.
HeldIndex(i) == [kind |-> "index", v |-> i]

\* the position of the index object getIndex(name) returns, 0 when it throws
getIndex(specs, si, name) == getIndexSpec(specs, si, 0, name)

getNamedIndexCount(si) == Cardinality(DOMAIN si)

getTotalIndexCount(specs) == Len(specs)

\* an index spec as the argument of the last call
SpecArg(indexSpec) ==
  Rec(Undef, indexSpec.name, indexSpec.indexField, indexSpec.relationship)

\* the spec lacks a required field
Lacks(indexSpec) ==
  indexSpec.relationship = NoRelationship \/ indexSpec.indexField = Undef

\* addIndex(indexSpec), the caller keeping the index object it returns; a
\* store takes no more than MaxIndexes specs that have the required fields
AddIndexKept(indexSpec) ==
  /\ Len(indexSpecs) < MaxIndexes \/ Lacks(indexSpec)
  /\ \E st \in {addIndex(heap, nheap, arrs, items, indexSpecs, specIndex, idx,
                         indexSpec)} :
       LeaveStore(st, IF st.threw THEN held ELSE HeldIndex(Len(st.indexSpecs)),
                  LastCall("addIndex", st.threw, SpecArg(indexSpec), Undef))

GetIndex(name) ==
  \E i \in {getIndex(indexSpecs, specIndex, name)} :
    Leave(heap, nheap, arrs, items, indexSpecs, specIndex, idx,
          IF i = 0 THEN held ELSE HeldIndex(i),
          LastCall("getIndex", i = 0, CallArg(Undef, 0, name), Undef))

IndexedRecs == {Rec(i, i, t, 0) : i \in KeyVals, t \in TypeVals}

GoodIndexSpecs ==
  {IndexSpec("byType", "type", ONE_TO_MANY),
   IndexSpec(Undef, "type", ONE_TO_MANY),
   IndexSpec("byName", "name", ONE_TO_ONE)}

LackingIndexSpecs ==
  {IndexSpec("byType", "type", NoRelationship),
   IndexSpec("byName", Undef, ONE_TO_ONE)}

UnknownIndexSpecs == {IndexSpec(Undef, "type", BadRelationship)}

InitIndex ==
  \E recs \in InitialItems(IndexedRecs, "id") : Constructed("id", recs, <<>>)

\* the callers update and delete records of the master sequence
IsLive(rec) == rec[keyField] \in MasterKeys

\* key values are interchangeable: the callers add a record under the
\* first key name that no live record has
IsNextKey(rec) ==
  \A i \in 1..Len(KeyNames) :
    KeyNames[i] = rec[keyField] => \A j \in 1..(i - 1) : KeyNames[j] \in MasterKeys

\* an update gives a live record another value
Changes(rec) ==
  \E p \in 1..Len(Master) : SameKey(heap[Master[p]], rec) /\ heap[Master[p]] # rec

NextIndex ==
  \/ \E rec \in IndexedRecs : IsNextKey(rec) /\ AddItem(rec)
  \/ \E rec \in IndexedRecs : Changes(rec) /\ UpdateItem(rec)
  \/ \E rec \in IndexedRecs : IsLive(rec) /\ DeleteItem(rec)
  \/ \E i \in 1..MaxIndexes : Rebuild(i)
  \/ RebuildAll
  \/ Truncate
  \/ \E indexSpec \in GoodIndexSpecs \cup LackingIndexSpecs \cup UnknownIndexSpecs :
       AddIndexKept(indexSpec)
  \/ \E name \in {"byType", "byName"} : GetIndex(name)

SpecIndex == InitIndex /\ [][NextIndex]_vars

\* ----------------------------------------------------------------- C16
\* what index object i holds of record r: the record itself under its field
\* value (ONE_TO_ONE), or the record once in the bucket of its field value
Maps(h, A, spec, o, r) ==
  /\ HasKey(o, h[r][spec.indexField])
  /\ IF spec.relationship = ONE_TO_ONE THEN o[h[r][spec.indexField]] = r
     ELSE Cardinality(PositionsOf(A[o[h[r][spec.indexField]]], r)) = 1

\* C16: after truncate() has returned the master sequence is empty and no
\* index, primary or secondary, has a key; an index object the caller
\* obtained before the truncate is afterwards still the index object of its
\* spec, and a record added later with addItem is mapped in it.
C16_TruncateEmptiesTheStore ==
  [][/\ (last'.op = "truncate" /\ ~last'.threw) =>
          /\ arrs'[items'] = <<>>
          /\ \A i \in 1..Len(indexSpecs') : idx'[i] = EmptyObj
          /\ held' = held
          /\ indexSpecs' = indexSpecs
     /\ (last'.op = "addItem" /\ ~last'.threw /\ held.kind = "index") =>
          /\ held' = held
          /\ \E r \in Range(arrs'[items']) :
               /\ heap'[r] = last'.arg
               /\ Maps(heap', arrs', indexSpecs'[held.v], idx'[held.v], r)]_vars

\* truncate() has returned while the caller holds the object of a
\* ONE_TO_MANY index
C16_Witness ==
  /\ last.op = "truncate"
  /\ ~last.threw
  /\ held.kind = "index"
  /\ IsOneToMany(held.v)

\* ----------------------------------------------------------------- C17
KnownRelationship(spec) == spec.relationship \in {ONE_TO_ONE, ONE_TO_MANY}

\* the last position of s whose record has the value v in field f
LastWith(h, s, f, v) ==
  CHOOSE p \in 1..Len(s) :
    /\ h[s[p]][f] = v
    /\ \A q \in (p + 1)..Len(s) : h[s[q]][f] # v

\* the index of spec computed from the master sequence s alone: under each
\* field value the last record that has it (ONE_TO_ONE), or the records
\* that have it in master order (ONE_TO_MANY)
FromScratch(h, s, spec) ==
  [v \in {h[s[p]][spec.indexField] : p \in 1..Len(s)} |->
     IF spec.relationship = ONE_TO_ONE
       THEN s[LastWith(h, s, spec.indexField, v)]
     ELSE SelectSeq(s, LAMBDA r : h[r][spec.indexField] = v)]

\* what an index object holds: records, or the contents of its buckets
Held(A, spec, o) ==
  [v \in DOMAIN o |-> IF spec.relationship = ONE_TO_ONE THEN o[v] ELSE A[o[v]]]

IsFromScratch(h, A, its, specs, ix, i) ==
  Held(A, specs[i], ix[i]) = FromScratch(h, A[its], specs[i])

\* rebuildAll visits the specs last to first and ends at the first whose
\* relationship is unknown: the indexes it rebuilt are those after it
Reached(specs, i) == \A j \in i..Len(specs) : KnownRelationship(specs[j])

\* C17: every index rebuildAll() rebuilt, and the index rebuild(index)
\* rebuilt, is the index computed from scratch from the current master
\* sequence: every live record is mapped under its current field value and
\* nothing else is, whatever the index held before.
C17_RebuildIsFromScratch ==
  [][/\ (last'.op = "rebuildAll") =>
          \A i \in 1..Len(indexSpecs') : Reached(indexSpecs', i) =>
            IsFromScratch(heap', arrs', items', indexSpecs', idx', i)
     /\ (last'.op = "rebuild" /\ KnownRelationship(indexSpecs'[last'.arg.nestedObj])) =>
          IsFromScratch(heap', arrs', items', indexSpecs', idx', last'.arg.nestedObj)]_vars

\* rebuildAll has returned on a store with a bucket of two records
C17_Witness ==
  /\ last.op = "rebuildAll"
  /\ ~last.threw
  /\ \E i \in 1..Len(indexSpecs) :
       /\ IsOneToMany(i)
       /\ \E k \in DOMAIN idx[i] : Len(Bucket(i, k)) = 2

\* ----------------------------------------------------------------- C18
\* the master sequence of a store a method leaves behind is the one before
SameMaster(st) == st.items = items /\ st.arrs[st.items] = Master /\ st.heap = heap

\* the indexes of two stores hold the same, bucket order included
SameIndexes(s1, s2) ==
  /\ s1.indexSpecs = s2.indexSpecs
  /\ s1.specIndex = s2.specIndex
  /\ \A i \in 1..Len(s1.indexSpecs) :
       Held(s1.arrs, s1.indexSpecs[i], s1.idx[i])
         = Held(s2.arrs, s2.indexSpecs[i], s2.idx[i])

RebuildAllOf(st) ==
  rebuildAll(st.heap, st.nheap, st.arrs, st.items, st.indexSpecs, st.specIndex, st.idx, keyField)

RebuildOf(st, i) ==
  rebuild(st.heap, st.nheap, st.arrs, st.items, st.indexSpecs, st.specIndex, st.idx, i)

\* the store as it is
StoreNow == Store(heap, nheap, arrs, items, indexSpecs, specIndex, idx, FALSE)

\* C18: in any store state, rebuildAll() applied twice in a row leaves the
\* indexes exactly as rebuildAll() applied once does, bucket order included,
\* and so does rebuild(index) for every index; neither changes the master
\* sequence.
C18_RebuildIsIdempotent ==
  /\ \A once \in {RebuildAllOf(StoreNow)} :
       /\ SameMaster(once)
       /\ \A twice \in {RebuildAllOf(once)} :
            SameMaster(twice) /\ SameIndexes(twice, once)
  /\ \A i \in 1..Len(indexSpecs) :
       \A once \in {RebuildOf(StoreNow, i)} :
         /\ SameMaster(once)
         /\ \A twice \in {RebuildOf(once, i)} :
              SameMaster(twice) /\ SameIndexes(twice, once)

\* rebuild(index) has returned for a ONE_TO_MANY index with a bucket of two
\* records, on a store where a call had failed before
C18_Witness ==
  /\ last.op = "rebuild"
  /\ ~last.threw
  /\ thrown
  /\ IsOneToMany(last.arg.nestedObj)
  /\ \E k \in DOMAIN idx[last.arg.nestedObj] : Len(Bucket(last.arg.nestedObj, k)) = 2

\* ----------------------------------------------------------------- C19
\* the records an index object holds
Shown(A, spec, o) ==
  IF spec.relationship = ONE_TO_ONE THEN {o[v] : v \in DOMAIN o}
  ELSE UNION {Range(A[o[v]]) : v \in DOMAIN o}

\* r is the only record of s with its value of field f
IsOnly(h, s, f, r) == \A p \in 1..Len(s) : h[s[p]][f] = h[r][f] => s[p] = r

\* addIndex(indexSpec) has returned: the new spec is the last one, its
\* index is the object the caller got, it is the index computed from the
\* master sequence, it maps every record (for ONE_TO_ONE: every record that
\* alone has its field value) and holds no other, and getIndex gives it
\* under the spec's name
C19_AddIndexStep ==
  (last'.op = "addIndex" /\ ~last'.threw) =>
    /\ Len(indexSpecs') = Len(indexSpecs) + 1
    /\ SpecArg(indexSpecs'[Len(indexSpecs')]) = last'.arg
    /\ held' = HeldIndex(Len(indexSpecs'))
    /\ IsFromScratch(heap', arrs', items', indexSpecs', idx', held'.v)
    /\ \A r \in Range(arrs'[items']) :
         (indexSpecs'[held'.v].relationship = ONE_TO_MANY
            \/ IsOnly(heap', arrs'[items'], indexSpecs'[held'.v].indexField, r)) =>
           Maps(heap', arrs', indexSpecs'[held'.v], idx'[held'.v], r)
    /\ Shown(arrs', indexSpecs'[held'.v], idx'[held'.v]) \subseteq Range(arrs'[items'])
    /\ last'.arg.name # Undef =>
         getIndex(indexSpecs', specIndex', last'.arg.name) = held'.v

\* the caller holds the index object of a spec while addItem, updateItem or
\* deleteItem returns: the caller still holds it, the record added or updated
\* is mapped in it, the record deleted is not in it any more
C19_LiveStep ==
  (/\ held.kind = "index"
   /\ KnownRelationship(indexSpecs[held.v])
   /\ last'.op \in {"addItem", "updateItem", "deleteItem"}
   /\ ~last'.threw) =>
    /\ held' = held
    /\ indexSpecs'[held.v] = indexSpecs[held.v]
    /\ last'.op \in {"addItem", "updateItem"} =>
         \E r \in Range(arrs'[items']) :
           /\ heap'[r] = last'.arg
           /\ Maps(heap', arrs', indexSpecs'[held.v], idx'[held.v], r)
    /\ last'.op = "deleteItem" =>
         \A r \in Shown(arrs', indexSpecs'[held.v], idx'[held.v]) :
           heap'[r][keyField] # last'.arg[keyField]

\* C19: addIndex on a store that holds records returns an index that maps
\* every current record under its field value, the record itself for
\* ONE_TO_ONE and in a bucket for ONE_TO_MANY, for named and anonymous
\* indexes alike; getIndex(name) returns the same index object; later
\* addItem, updateItem and deleteItem calls show in the object returned.
C19_AddIndexGivesLiveIndex ==
  [][C19_AddIndexStep /\ C19_LiveStep]_vars

\* addIndex has returned the object of an anonymous ONE_TO_MANY index on a
\* store of two records
C19_Witness ==
  /\ last.op = "addIndex"
  /\ ~last.threw
  /\ last.arg.name = Undef
  /\ held = HeldIndex(Len(indexSpecs))
  /\ IsOneToMany(held.v)
  /\ Len(Master) = 2

\* ----------------------------------------------------------------- C20
\* C20: addIndex with a spec that lacks 'indexField' or 'relationship'
\* throws; the total and the named index counts are what they were, and so
\* are the master sequence and every index.
C20_LackingSpecRejected ==
  [][(last'.op = "addIndex"
        /\ (last'.arg.type = Undef \/ last'.arg.nestedObj = NoRelationship)) =>
       /\ last'.threw
       /\ getTotalIndexCount(indexSpecs') = getTotalIndexCount(indexSpecs)
       /\ getNamedIndexCount(specIndex') = getNamedIndexCount(specIndex)
       /\ StoreStateAfter = StoreState]_vars

\* addIndex has thrown for a spec without 'relationship' on a store that
\* holds records and a secondary index
C20_Witness ==
  /\ last.op = "addIndex"
  /\ last.threw
  /\ last.arg.nestedObj = NoRelationship
  /\ Len(Master) > 0
  /\ Len(indexSpecs) = 2

\* ------------------------------------------------------- specification 8
\* A store constructed over the caller's array, which the caller keeps, with
\* one of two names asked for the primary index; the caller adds records
\* through the store and by pushing onto its array, replaces records,
\* changes the objects it has, rebuilds, and looks records and the primary
\* index up.
IdIndexNames == {"byId", "byKey"}

InitBuild ==
  \E recs \in InitialItems(TypedRecs, "id"), idIndexName \in IdIndexNames,
     more \in Setups(TypeIndexSpecs) :
    ConstructedOver("id", idIndexName, recs, more, TRUE)

\* r = {...}; addItem(r): the caller keeps r
AddItemKept(rec) ==
  /\ Len(arrs[items]) < MaxItems
  /\ ~HasKey(idx[1], rec[keyField])
  /\ \E al \in {Alloc(heap, nheap, rec)} :
     \E st \in {addItem(al.heap, al.nheap, arrs, items, indexSpecs, specIndex,
                        idx, al.ref)} :
       LeaveStore(st, HeldItem(al.ref), LastCall("addItem", st.threw, rec, "kept"))

\* r = {...}; updateItem(r): the caller keeps r
UpdateItemKept(rec) ==
  /\ Cardinality(DOMAIN heap) <= MaxItems
  /\ \E al \in {Alloc(heap, nheap, rec)} :
     \E st \in {updateItem(al.heap, al.nheap, arrs, items, indexSpecs,
                           specIndex, idx, keyField, al.ref)} :
       LeaveStore(st, HeldItem(al.ref), LastCall("updateItem", st.threw, rec, "kept"))

NextBuild ==
  \/ \E rec \in TypedRecs : IsNextKey(rec) /\ AddItem(rec)
  \/ \E rec \in TypedRecs : IsNextKey(rec) /\ AddItemKept(rec)
  \/ \E rec \in TypedRecs : Changes(rec) /\ UpdateItemKept(rec)
  \/ \E v \in TypeVals : SetHeldField("type", v)
  \/ \E rec \in TypedRecs : IsNextKey(rec) /\ PushHeld(rec)
  \/ RebuildAll
  \/ \E id \in KeyVals : GetItemAs(id, "noClone")
  \/ \E name \in IdIndexNames : GetIndex(name)

SpecBuild == InitBuild /\ [][NextBuild]_vars

\* ----------------------------------------------------------------- C21
\* C21: the master sequence of a constructed store is the caller's array
\* itself and the primary index maps each record's key to the record
\* object; addItem appends the record to the caller's array; after
\* rebuildAll every record of the caller's array, the ones the caller pushed
\* included, is what getItem finds under its key (the last one of the
\* records that share a key).
C21_UsesTheCallersArray ==
  [][/\ (last.op = "constructor" /\ ~last.threw) =>
          /\ held = HeldList(items)
          /\ \A r \in Range(Master) : Read(idx[1], heap[r][keyField]) = r
          /\ DOMAIN idx[1] = MasterKeys
     /\ (last'.op = "addItem" /\ ~last'.threw /\ held.kind = "list"
           /\ last'.key # "kept") =>
          /\ held'.kind = "list"
          /\ Len(arrs'[held'.v]) = Len(arrs[held.v]) + 1
          /\ heap'[arrs'[held'.v][Len(arrs'[held'.v])]] = last'.arg
     /\ (last'.op = "rebuildAll" /\ ~last'.threw /\ held.kind = "list") =>
          /\ held'.kind = "list"
          /\ \A p \in 1..Len(arrs'[held'.v]) :
               (\A q \in (p + 1)..Len(arrs'[held'.v]) :
                  ~SameKey(heap'[arrs'[held'.v][q]], heap'[arrs'[held'.v][p]]))
               => Read(idx'[1], heap'[arrs'[held'.v][p]][keyField])
                    = arrs'[held'.v][p]]_vars

\* rebuildAll has returned after the caller pushed a record onto its array
C21_Witness ==
  /\ last.op = "rebuildAll"
  /\ ~last.threw
  /\ held = HeldList(items)
  /\ Len(Master) = MaxItems + 1

\* ----------------------------------------------------------------- C22
\* the records index i holds under value v, by value: one record
\* (ONE_TO_ONE) or the bucket's records in order; nothing without the key
Under(h, A, spec, o, v) ==
  IF ~HasKey(o, v) THEN <<>>
  ELSE IF spec.relationship = ONE_TO_ONE THEN <<h[o[v]]>>
  ELSE Contents(h, A[o[v]])

\* C22: addItem(record) with a key no record of the store has, once it has
\* returned, has made the record the last element of the master sequence,
\* one longer and otherwise as before; the primary index maps the record's
\* key to that element, every secondary index holds that element under the
\* record's field value, last in its bucket, which is new when the value
\* was, and what the indexes hold under any other value is unchanged.
C22_AddItemAppendsAndIndexes ==
  [][(last'.op = "addItem" /\ ~last'.threw /\ ~IsLive(last'.arg)) =>
       \E n \in {arrs'[items'][Len(arrs'[items'])]} :
         /\ Len(arrs'[items']) = Len(Master) + 1
         /\ heap'[n] = last'.arg
         /\ \A p \in 1..Len(Master) : heap'[arrs'[items'][p]] = heap[Master[p]]
         /\ idx'[1][last'.arg[keyField]] = n
         /\ indexSpecs' = indexSpecs
         /\ \A i \in 1..Len(indexSpecs) :
              \E f \in {indexSpecs[i].indexField} :
                /\ DOMAIN idx'[i] = DOMAIN idx[i] \cup {last'.arg[f]}
                /\ \A v \in DOMAIN idx'[i] \ {last'.arg[f]} :
                     Under(heap', arrs', indexSpecs[i], idx'[i], v)
                       = Under(heap, arrs, indexSpecs[i], idx[i], v)
                /\ IF indexSpecs[i].relationship = ONE_TO_ONE
                     THEN idx'[i][last'.arg[f]] = n
                   ELSE /\ arrs'[idx'[i][last'.arg[f]]][Len(arrs'[idx'[i][last'.arg[f]]])] = n
                        /\ Under(heap', arrs', indexSpecs[i], idx'[i], last'.arg[f])
                             = Append(Under(heap, arrs, indexSpecs[i], idx[i], last'.arg[f]),
                                      last'.arg)]_vars

\* addItem has returned on a store with a secondary index whose bucket for
\* the record's value held a record before
C22_Witness ==
  /\ last.op = "addItem"
  /\ ~last.threw
  /\ \E i \in 2..Len(indexSpecs) :
       /\ IsOneToMany(i)
       /\ Len(Bucket(i, last.arg[indexSpecs[i].indexField])) = 2
       /\ heap[Bucket(i, last.arg[indexSpecs[i].indexField])[2]] = last.arg

\* ----------------------------------------------------------------- C23
\* C23: getIndex called on a constructed store with the name the
\* constructor was given as idIndexName returns the primary index.
C23_PrimaryIndexUnderItsName ==
  [][(last.op = "constructor" /\ last'.op = "getIndex"
        /\ last'.arg.name = last.arg.name) =>
       (~last'.threw /\ held' = HeldIndex(1))]_vars

\* ------------------------------------------------------- specification 9
\* An Item subclass constructed over an object of the caller.  The caller
\* holds its variables as a list: the object it passed, the Item (known by
\* the object the Item keeps as #data) and, once read, the Item's .data.
\* The caller changes its objects in place.
ItemRecs(kf) ==
  {[Rec(Undef, Undef, t, 1) EXCEPT ![kf] = k] : k \in FacadeKeys, t \in TypeVals}

\* data = {...}; item = new itemClass(data): the caller has both
newItem(h, nh, A, kf, rec) ==
  The({The({IF c.threw THEN Got(h, nh, A, NoHeld, TRUE)
            ELSE Got(c.heap, al.nheap, Put(A, NewRef(A), <<al.ref, al.ref>>),
                     HeldList(NewRef(A)), FALSE) :
              c \in {createItem(al.heap, kf, al.ref)}}) :
         al \in {Alloc(h, nh, rec)}})

\* get data() { return structuredClone(this.#data) }
itemData(h, nh, A, a) ==
  The({Got(c.heap, c.nheap, Put(A, a, <<A[a][1], A[a][2], c.ref>>), HeldList(a), FALSE) :
         c \in {structuredClone(h, nh, A[a][2])}})

NewItem(rec) ==
  /\ held.kind = "none"
  /\ \E g \in {newItem(heap, nheap, arrs, keyField, rec)} :
       LeaveGot(g, LastCall("new Item", g.threw, rec, Undef))

ReadItemData ==
  /\ held.kind = "list"
  /\ \E g \in {itemData(heap, nheap, arrs, held.v)} :
       LeaveGot(g, LastCall("data", g.threw, NoRec, Undef))

InitItem ==
  \E kf \in {"id", "name"} : ConstructedOver(kf, "byId", <<>>, <<>>, FALSE)

NextItem ==
  \/ \E rec \in ItemRecs(keyField) : NewItem(rec)
  \/ ReadItemData
  \/ \E v \in TypeVals : SetHeldField("type", v)
  \/ \E d \in DataVals : SetHeldNested(d)

SpecItem == InitItem /\ [][NextItem]_vars

\* ----------------------------------------------------------------- C24
\* the object the caller passed, the Item's values and the last .data read
ItemArg == arrs[held.v][1]

ItemOf == arrs[held.v][2]

\* C24: constructing an Item leaves the object it was given as it was, and
\* no change the caller makes afterwards to that object, or to what it
\* read from the Item, changes a value the Item gives.
C24_ItemCopiesInAndOut ==
  [][/\ (last'.op = "new Item" /\ ~last'.threw) =>
          [heap'[arrs'[held'.v][1]] EXCEPT !.nestedObj = 1] = last'.arg
     /\ (last'.op = "mutate" /\ held.kind = "list") =>
          ItemValue(heap', nheap', arrs'[held'.v][2]) = ItemValue(heap, nheap, ItemOf)]_vars

\* the parts of C24 the Item keeps: construction changes nothing of the
\* object but an absent id, and changing what was read from the Item
\* changes no value of the Item
C24_ItemCopiesOut ==
  [][/\ (last'.op = "new Item" /\ ~last'.threw) =>
          [heap'[arrs'[held'.v][1]] EXCEPT !.nestedObj = 1, !.id = last'.arg.id]
            = last'.arg
     /\ (last'.op = "mutate" /\ held.kind = "list" /\ Len(arrs[held.v]) = 3
           /\ ItemValue(heap', nheap', ItemArg) = ItemValue(heap, nheap, ItemArg)) =>
          ItemValue(heap', nheap', arrs'[held'.v][2]) = ItemValue(heap, nheap, ItemOf)]_vars

\* ------------------------------------------------------ specification 10
\* An ItemManager with a file name: it is loaded from a list the caller
\* gives or from the file, saved to the file, and changed with add, update
\* and delete in between.  The file holds JSON text, known here by the list
\* of records it parses to.
\* delete(itemId): the stored record under the normalized id is what
\* deleteItem is called with, which throws when there is none
managerDelete(h, nh, A, its, specs, si, ix, kf, itemId) ==
  The({IF item <= 0 THEN Store(h, nh, A, its, specs, si, ix, TRUE)
       ELSE deleteItem(h, nh, A, its, specs, si, ix, kf, h[item]) :
         item \in {Read(ix[1], idNormalizer(itemId))}})

\* for (const item of items) this.add(item), up to the first add that throws
RECURSIVE AddEach(_, _, _, _)
AddEach(st, kf, recs, i) ==
  IF i > Len(recs) THEN st
  ELSE The({IF st1.threw THEN st1 ELSE AddEach(st1, kf, recs, i + 1) :
              st1 \in {managerAdd(st.heap, st.nheap, st.arrs, st.items,
                                  st.indexSpecs, st.specIndex, st.idx, kf, recs[i])}})

load_NoTruncate(h, nh, A, its, specs, si, ix, kf, f, given, allowNoFile) ==
  The({IF ~src.exists THEN [t EXCEPT !.threw = ~allowNoFile]
       ELSE AddEach(t, kf, src.items, 1) :
         t \in {Store(h, nh, A, its, specs, si, ix, FALSE)},
         src \in {IF given.exists THEN given ELSE f}})

\* load({ allowNoFile, items }) of a manager that has a file name: the store
\* is truncated, then the given items, or else the items read from the
\* file, are added one by one; a missing file is an error unless allowNoFile
load(h, nh, A, its, specs, si, ix, kf, f, given, allowNoFile) ==
  The({IF t.threw THEN t
       ELSE IF ~src.exists THEN [t EXCEPT !.threw = ~allowNoFile]
       ELSE AddEach(t, kf, src.items, 1) :
         t \in {truncate(h, nh, A, its, specs, si, ix, kf)},
         src \in {IF given.exists THEN given ELSE f}})

\* the validate function of the test: an error for every item that has
\* the value 'bar'; how many errors it reports
validate(h, s, validator) ==
  IF validator = "NoBar" THEN Cardinality({p \in 1..Len(s) : h[s[p]].type = "bar"})
  ELSE 0

\* dataCleaner of a manager whose key field is not 'id': delete data.id
dataCleaner(rec, kf) == IF kf # "id" THEN [rec EXCEPT !.id = Undef] ELSE rec

save_NoValidateIgnored(h, A, its, kf, f, validator, noValidate) ==
  IF validator # Undef /\ validate(h, A[its], validator) > 0
    THEN [file |-> f, threw |-> TRUE]
  ELSE [file |-> FileOf([p \in 1..Len(A[its]) |->
                           dataCleaner(h[SortByField(h, A[its], kf)[p]], kf)]),
        threw |-> FALSE]

\* save({ noValidate }): refused when validate reports errors; else
\* list({ rawData: true }), a sorted copy, is cleaned and written
save(h, A, its, kf, f, validator, noValidate) ==
  IF validator # Undef /\ ~noValidate /\ validate(h, A[its], validator) > 0
    THEN [file |-> f, threw |-> TRUE]
  ELSE [file |-> FileOf([p \in 1..Len(A[its]) |->
                           dataCleaner(h[SortByField(h, A[its], kf)[p]], kf)]),
        threw |-> FALSE]

ManagerLoad(given, allowNoFile) ==
  \E st \in {load(heap, nheap, arrs, items, indexSpecs, specIndex, idx, keyField,
                  file, given, allowNoFile)} :
    LeaveStore(st, held, LastCall("load", st.threw, given,
                                  IF allowNoFile THEN "allowNoFile" ELSE Undef))

\* manager.validate = validator; manager.save({ noValidate })
ManagerSave(validator, noValidate) ==
  \E w \in {save(heap, arrs, items, keyField, file, validator, noValidate)} :
    LeaveWith(heap, nheap, arrs, items, indexSpecs, specIndex, idx, held,
              LastCall("save", w.threw,
                       CallArg(validator, IF noValidate THEN 1 ELSE 0, Undef), Undef),
              w.file)

ManagerDelete(itemId) ==
  \E st \in {managerDelete(heap, nheap, arrs, items, indexSpecs, specIndex, idx,
                           keyField, itemId)} :
    LeaveStore(st, held, LastCall("delete", st.threw, CallArg(itemId, 0, Undef), Undef))

\* update(data) with an object of the caller's
ManagerUpdateData(data) ==
  \E al \in {Alloc(heap, nheap, data)} :
  \E u \in {managerUpdate(al.heap, al.nheap, arrs, items, indexSpecs, specIndex,
                          idx, keyField, al.ref)} :
    Leave(u.got.heap, u.got.nheap, u.got.arrs, u.store.items,
          u.store.indexSpecs, u.store.specIndex, u.store.idx,
          IF u.got.threw THEN held ELSE u.got.held,
          LastCall("update", u.got.threw, data, "ItemManager"))

\* the caller's objects: their keys are their own normal form
FileRecs(kf) == {rec \in FacadeRecs(kf) : rec[kf] \in KeyVals}

\* the lists a load is given: none, or up to MaxItems of the caller's
\* objects, one of which lacks the key field
LoadArgs(kf) ==
  {NoFile} \cup {FileOf(s) : s \in SeqsUpTo(FileRecs(kf) \cup {Rec(Undef, Undef, "foo", 0)},
                                            MaxItems)}

\* the manager is constructed over at most one item
InitFile ==
  \E kf \in {"id", "name"} :
    \E recs \in FacadeItems(kf), more \in Setups(FacadeIndexSpecs) :
      /\ Len(recs) <= 1
      /\ \A p \in 1..Len(recs) : recs[p][kf] \in KeyVals
      /\ Constructed(kf, recs, more)

SaveValidators == {Undef, "NoBar"}

NextFile ==
  \/ \E given \in LoadArgs(keyField), allowNoFile \in BOOLEAN :
       (given.exists => ~allowNoFile) /\ ManagerLoad(given, allowNoFile)
  \/ \E validator \in SaveValidators, noValidate \in BOOLEAN :
       ManagerSave(validator, noValidate)
  \/ \E data \in FileRecs(keyField) : ManagerAdd(data)
  \/ \E data \in FileRecs(keyField) : ManagerUpdateData(data)
  \/ \E itemId \in KeyVals : ManagerDelete(itemId)

SpecFile == InitFile /\ [][NextFile]_vars

\* ----------------------------------------------------------------- C25
\* the list a load call takes its items from: the one given, or the file's
LoadedBy(l, f) == IF l.arg.exists THEN l.arg.items ELSE f.items

Refused(l, h, s) ==
  l.arg.id # Undef /\ l.arg.nestedObj = 0 /\ validate(h, s, l.arg.id) > 0

Kinds == {"NoBar", "Warns", "Throws", "Rejects"}

\* the most validators a Model is given
MaxValidators == 2

SubModels ==
  {[rootItemManagers |-> n, validators |-> s] :
     n \in {0, 1}, s \in SeqsUpTo(Kinds, 1)}

\* who was called: validator slot of sub-model sub, 0 being the manager's
\* validate and the Model itself
Id(sub, slot) == [sub |-> sub, slot |-> slot]

\* what a validate call has done so far: the calls made, the errors and
\* warnings lists, whether a call threw and whether a promise rejects
Start == [log |-> <<>>, errors |-> <<>>, warnings |-> <<>>, threw |-> FALSE,
          rejects |-> FALSE]

\* validator.validate({ errors, warnings }) of a validator of the kind
Call(acc, id, kind, bars) ==
  The({IF kind = "NoBar" THEN [a EXCEPT !.errors = @ \o [p \in 1..bars |-> id]]
       ELSE IF kind = "Warns" THEN [a EXCEPT !.warnings = Append(@, id)]
       ELSE IF kind = "Throws" THEN [a EXCEPT !.threw = TRUE]
       ELSE [a EXCEPT !.rejects = TRUE] :
         a \in {[acc EXCEPT !.log = Append(@, id)]}})

\* for (const validator of this.#validators): up to the first that throws
RECURSIVE CallEach(_, _, _, _, _)
CallEach(acc, kinds, sub, i, bars) ==
  IF i > Len(kinds) \/ acc.threw THEN acc
  ELSE CallEach(Call(acc, Id(sub, i), kinds[i], bars), kinds, sub, i + 1, bars)

\* the first two loops of validate: the root item managers that have a
\* validate, then the validators
validateOwn(acc, m, sub, managerValidate, bars) ==
  The({IF a.threw THEN a ELSE CallEach(a, m.validators, sub, 1, bars) :
         a \in {IF m.rootItemManagers = 1 /\ managerValidate # Undef
                  THEN Call(acc, Id(sub, 0), managerValidate, bars)
                ELSE acc}})

subValidate_OwnLists(acc, m, sub, managerValidate, bars) ==
  The({[acc EXCEPT !.log = a.log, !.rejects = acc.rejects \/ a.rejects \/ a.threw] :
         a \in {validateOwn([Start EXCEPT !.log = acc.log], m, sub,
                            managerValidate, bars)}})

\* subModel.validate({ errors, warnings }): an async function, so what it
\* throws is a promise that rejects
subValidate(acc, m, sub, managerValidate, bars) ==
  The({[a EXCEPT !.threw = FALSE, !.rejects = acc.rejects \/ a.rejects \/ a.threw] :
         a \in {validateOwn(acc, m, sub, managerValidate, bars)}})

RECURSIVE SubEach(_, _, _, _, _)
SubEach(acc, subs, j, managerValidate, bars) ==
  IF j > Len(subs) THEN acc
  ELSE SubEach(subValidate(acc, subs[j], j, managerValidate, bars), subs, j + 1,
               managerValidate, bars)

\* Model.validate(): the lists are new and shared by every call; the
\* promise rejects when a call threw or a promise of a call rejects
modelValidate(m, bars) ==
  The({IF a.threw THEN a ELSE SubEach(a, m.subModels, 1, m.validate, bars) :
         a \in {validateOwn(Start, m, 0, m.validate, bars)}})

HeldValidation(o) == [kind |-> "validation", v |-> o]

\* the state a call on the Model leaves behind
LeaveModel(m, l) ==
  /\ calls < MaxCalls
  /\ calls' = calls + 1
  /\ model' = m
  /\ last' = l
  /\ thrown' = (thrown \/ l.threw)
  /\ UNCHANGED <<keyField, heap, nheap, arrs, items, indexSpecs, specIndex, idx,
                 held, file, writes>>

\* new Model({ rootItemManagers, subModels, validators })
NewModel(n, subs, kinds) ==
  /\ ~model.exists
  /\ LeaveModel([model EXCEPT !.exists = TRUE, !.rootItemManagers = n,
                              !.subModels = subs, !.validators = kinds],
                LastCall("new Model", FALSE, NoRec, Undef))

\* bindRootItemManager(itemManager): the property of the manager's name
\* cannot be defined twice
BindRootItemManager ==
  /\ model.exists
  /\ LeaveModel(IF model.rootItemManagers = 1 THEN model
                ELSE [model EXCEPT !.rootItemManagers = 1],
                LastCall("bindRootItemManager", model.rootItemManagers = 1, NoRec, Undef))

\* bindValidator(validator): a validator must have a validate
BindValidator(kind) ==
  /\ model.exists
  /\ Len(model.validators) < MaxValidators
  /\ LeaveModel(IF kind = Undef THEN model
                ELSE [model EXCEPT !.validators = Append(@, kind)],
                LastCall("bindValidator", kind = Undef, CallArg(kind, 0, Undef), Undef))

\* bindSubModel(name, model) under a name not yet bound
BindSubModel(sub) ==
  /\ model.exists
  /\ model.subModels = <<>>
  /\ LeaveModel([model EXCEPT !.subModels = Append(@, sub)],
                LastCall("bindSubModel", FALSE, NoRec, Undef))

\* itemManager.validate = a validator's validate, or undefined
SetManagerValidate(kind) ==
  /\ model.validate # kind
  /\ LeaveModel([model EXCEPT !.validate = kind],
                LastCall("validate =", FALSE, CallArg(kind, 0, Undef), Undef))

ModelValidate ==
  /\ model.exists
  /\ \E o \in {modelValidate(model, validate(heap, Master, "NoBar"))} :
       Leave(heap, nheap, arrs, items, indexSpecs, specIndex, idx,
             HeldValidation(o),
             LastCall("validate", o.threw \/ o.rejects, NoRec, "Model"))

InitModel ==
  \E recs \in FacadeItems("id") :
    /\ Len(recs) <= 1
    /\ \A p \in 1..Len(recs) : recs[p].id \in KeyVals
    /\ Constructed("id", recs, <<>>)

NextModel ==
  \/ \E n \in {0, 1}, subs \in SeqsUpTo(SubModels, 1),
        kinds \in SeqsUpTo(Kinds, MaxValidators) : NewModel(n, subs, kinds)
  \/ BindRootItemManager
  \/ \E kind \in Kinds \cup {Undef} : BindValidator(kind)
  \/ \E sub \in SubModels : BindSubModel(sub)
  \/ \E kind \in {"NoBar", "Throws", Undef} : SetManagerValidate(kind)
  \/ \E data \in FileRecs("id") : IsNextKey(data) /\ data.type = "bar" /\ ManagerAdd(data)
  \/ ModelValidate

SpecModel == InitModel /\ [][NextModel]_vars

\* ----------------------------------------------------------------- C27
\* the validators of a Model or sub-model m, sub-model number sub: who they
\* are and of what kind
Own(m, sub) ==
  {<<Id(sub, i), m.validators[i]>> : i \in 1..Len(m.validators)}
    \cup (IF m.rootItemManagers = 1 /\ model.validate # Undef
            THEN {<<Id(sub, 0), model.validate>>} ELSE {})

Validators ==
  Own(model, 0) \cup UNION {Own(model.subModels[j], j) : j \in 1..Len(model.subModels)}

Count(s, id) == Cardinality({p \in 1..Len(s) : s[p] = id})

PrimaryShown(h, o) == [k \in DOMAIN o |-> h[o[k]]]

\* index object o of spec holds a record with key k under value v
HoldsUnder(h, A, spec, o, v, kf, k) ==
  \E p \in 1..Len(Under(h, A, spec, o, v)) : Under(h, A, spec, o, v)[p][kf] = k

\* the primary index is the last index an updateItem or deleteItem call
\* changes: when the call threw, the primary index is as it was
C28_PrimaryLast ==
  [][(last'.op \in {"updateItem", "deleteItem"} /\ last'.threw) =>
       PrimaryShown(heap', idx'[1]) = PrimaryShown(heap, idx[1])]_vars

\* C28: updateItem and deleteItem change the primary index last, so a call
\* that throws has not changed it, and every secondary index routine reads
\* the record the primary index held for the key before the call: when the
\* call has returned, no secondary index holds a record with that key under
\* the value that record had, unless the replacement has the same value.
C28_SecondaryReadsRecordBefore ==
  [][(last'.op \in {"updateItem", "deleteItem"}) =>
       /\ last'.threw => PrimaryShown(heap', idx'[1]) = PrimaryShown(heap, idx[1])
       /\ (~last'.threw /\ Read(idx[1], last'.arg[keyField]) > 0) =>
            \A i \in 2..Len(indexSpecs) :
              \E v \in {heap[Read(idx[1], last'.arg[keyField])][indexSpecs[i].indexField]} :
                (last'.op = "deleteItem" \/ last'.arg[indexSpecs[i].indexField] # v) =>
                  ~HoldsUnder(heap', arrs', indexSpecs[i], idx'[i], v, keyField,
                              last'.arg[keyField])]_vars

\* ----------------------------------------------------------------- C29
\* C29: when the caller changes in place the object it passed to addItem or
\* updateItem, the store is as it was: the master sequence and every index
\* hold the same values, so getItem and getByIndex give what they gave.
C29_PassedRecordsNotShared ==
  [][(last'.op = "mutate" /\ last.op \in {"addItem", "updateItem"}
        /\ last.key = "kept" /\ ~last.threw /\ held.kind = "item") =>
       StoreStateAfter = StoreState]_vars

\* ----------------------------------------------------------------- C31
\* the records of s stand in the order they have in the master sequence m
InOrderOf(s, m) ==
  \A p \in 1..Len(s), q \in 1..Len(s) :
    p < q => \E j \in 1..Len(m), n \in 1..Len(m) : j < n /\ m[j] = s[p] /\ m[n] = s[q]

\* C31: in every reachable state each ONE_TO_MANY bucket lists its records
\* in the relative order they have in the master sequence, as the buckets
\* rebuildAll computes from the current master sequence do.
C31_BucketsInMasterOrder ==
  \A i \in 1..Len(indexSpecs) :
    IsOneToMany(i) => \A k \in DOMAIN idx[i] : InOrderOf(Bucket(i, k), Master)

\* ----------------------------------------------------------------- C32
\* C32: addIndex with a relationship that is neither ONE_TO_ONE nor
\* ONE_TO_MANY throws and registers nothing: the total and the named index
\* counts are what they were and the store is as if addIndex had not been
\* called, so that a later addItem, updateItem, deleteItem or rebuildAll
\* does what it would have done.
C32_UnknownRelationshipRejected ==
  [][(last'.op = "addIndex" /\ last'.arg.type # Undef
        /\ last'.arg.nestedObj \notin {ONE_TO_ONE, ONE_TO_MANY, NoRelationship}) =>
       /\ last'.threw
       /\ getTotalIndexCount(indexSpecs') = getTotalIndexCount(indexSpecs)
       /\ getNamedIndexCount(specIndex') = getNamedIndexCount(specIndex)
       /\ StoreStateAfter = StoreState]_vars

\* The part that holds: the call does throw, and the named index count is
\* unchanged when the spec has no name.
C32_UnknownRelationshipThrows ==
  [][(last'.op = "addIndex" /\ last'.arg.type # Undef
        /\ last'.arg.nestedObj \notin {ONE_TO_ONE, ONE_TO_MANY, NoRelationship}) =>
       /\ last'.threw
       /\ last'.arg.name = Undef =>
            getNamedIndexCount(specIndex') = getNamedIndexCount(specIndex)]_vars

\* ------------------------------------------------------ specification 12
\* A store constructed over the caller's array, which the caller keeps; the
\* store is truncated, records are added through the store and pushed onto
\* the caller's array, and the indexes are rebuilt.
InitTruncate ==
  \E recs \in InitialItems(TypedRecs, "id"), more \in Setups(TypeIndexSpecs) :
    ConstructedOver("id", "byId", recs, more, TRUE)

NextTruncate ==
  \/ \E rec \in TypedRecs : IsNextKey(rec) /\ AddItem(rec)
  \/ \E rec \in TypedRecs : PushHeld(rec)
  \/ RebuildAll
  \/ Truncate

SpecTruncate == InitTruncate /\ [][NextTruncate]_vars

\* ----------------------------------------------------------------- C33
\* the caller's array is no longer the master sequence
IsDetached == held.kind = "list" /\ held.v # items

NextDelete ==
  \/ \E data \in FacadeRecs(keyField) : IsNextKey(data) /\ ManagerAdd(data)
  \/ \E id \in FacadeKeys : ManagerGet(id)
  \/ \E itemId \in FacadeKeys : ManagerDelete(itemId)

SpecDelete == InitFacade /\ [][NextDelete]_vars

\* ----------------------------------------------------------------- C34
\* the key values of the records index i holds
KeysHeld(h, A, spec, o, kf) ==
  IF spec.relationship = ONE_TO_ONE THEN {h[o[v]][kf] : v \in DOMAIN o}
  ELSE {h[r][kf] : r \in UNION {Range(A[o[v]]) : v \in DOMAIN o}}

\* C34: whenever get(id) returns an item, delete(id) returns and removes
\* that item and no other: has(id) is then false, get(id) finds nothing, the
\* master sequence is the one before without the item, and no index holds
\* the item; whatever the key field, with the default normalizer.
C34_DeleteRemovesWhatGetFinds ==
  [][(last'.op = "delete" /\ Read(idx[1], last'.arg.id) > 0) =>
       /\ ~last'.threw
       /\ ~has(idx', last'.arg.id)
       /\ Read(idx'[1], last'.arg.id) = 0
       /\ Contents(heap', arrs'[items'])
            = Contents(heap, SelectSeq(Master, LAMBDA r : r # Read(idx[1], last'.arg.id)))
       /\ \A i \in 1..Len(indexSpecs') :
            last'.arg.id \notin KeysHeld(heap', arrs', indexSpecs'[i], idx'[i], keyField)]_vars

\* The part that holds: it is so when the id is its own normal form and the
\* store is keyed by 'id'.
C34_DeleteByNormalId ==
  [][(last'.op = "delete" /\ Read(idx[1], last'.arg.id) > 0
        /\ keyField = "id" /\ idNormalizer(last'.arg.id) = last'.arg.id) =>
       /\ ~last'.threw
       /\ ~has(idx', last'.arg.id)
       /\ Contents(heap', arrs'[items'])
            = Contents(heap, SelectSeq(Master, LAMBDA r : r # Read(idx[1], last'.arg.id)))
       /\ \A i \in 1..Len(indexSpecs') :
            last'.arg.id \notin KeysHeld(heap', arrs', indexSpecs'[i], idx'[i], keyField)]_vars

\* ------------------------------------------------------ specification 14
\* The ItemManager's save as the asynchronous function it is: the call makes
\* the text of the items and starts the file write, which ends later; the
\* callers change the store while the write is in flight.
\* a write that save of manager 'by' started with the text of recs
Write(by, recs) == [by |-> by, items |-> recs, state |-> "writing"]

InFlight == {i \in 1..Len(writes) : writes[i].state = "writing"}

written_AtCompletion(h, A, its, kf, w) == save(h, A, its, kf, NoFile, Undef, TRUE).file.items

\* fs.writeFile(fileName, JSON.stringify(itemList, null, '  ')): the text is
\* made when save calls writeFile, and it is what the write puts in the file
written(h, A, its, kf, w) == w.items

\* save({ noValidate }), not awaited: the promise it returns rejects when
\* the call is refused, and else is settled by the write it started; a
\* caller saves again when the writes of its last save have ended
ManagerSaveCall(validator, noValidate) ==
  /\ InFlight = {}
  /\ \E w \in {save(heap, arrs, items, keyField, file, validator, noValidate)} :
       LeaveAll(heap, nheap, arrs, items, indexSpecs, specIndex, idx, held,
                LastCall("save", w.threw,
                         CallArg(validator, IF noValidate THEN 1 ELSE 0, Undef),
                         "pending"),
                file, IF w.threw THEN <<>> ELSE <<Write(Id(0, 0), w.file.items)>>)

\* what the end of a write leaves behind: the file f and the outcome
WriteEnds(i, f, outcome) ==
  /\ file' = f
  /\ writes' = [writes EXCEPT ![i].state = outcome]
  /\ last' = LastCall("writeFile", outcome = "failed", FileOf(writes[i].items), outcome)
  /\ thrown' = (thrown \/ outcome = "failed")
  /\ UNCHANGED <<keyField, heap, nheap, arrs, items, indexSpecs, specIndex, idx,
                 held, calls, model>>

\* a write in flight completes: the file holds its text
WriteCompletes(i) ==
  /\ i \in InFlight
  /\ WriteEnds(i, FileOf(written(heap, arrs, items, keyField, writes[i])), "written")

\* a write in flight fails before it has put anything in the file: the
\* promise of writeFile rejects, and with it the promise of save
WriteFails(i) ==
  /\ i \in InFlight
  /\ WriteEnds(i, file, "failed")

\* ItemManager.truncate(): this.listManager.truncate()
ManagerTruncate ==
  \E st \in {truncate(heap, nheap, arrs, items, indexSpecs, specIndex, idx,
                      keyField)} :
    LeaveStore(st, held, LastCall("truncate", st.threw, NoRec, "ItemManager"))

\* the manager is constructed over at most one item, with its index
InitWrite ==
  \E kf \in {"id", "name"} :
    \E recs \in FacadeItems(kf), indexSpec \in FacadeIndexSpecs :
      /\ Len(recs) <= 1
      /\ \A p \in 1..Len(recs) : recs[p][kf] \in KeyVals
      /\ Constructed(kf, recs, <<indexSpec>>)

NextWrite ==
  \/ \E validator \in SaveValidators : ManagerSaveCall(validator, FALSE)
  \/ \E i \in 1..Len(writes) : WriteCompletes(i)
  \/ \E i \in 1..Len(writes) : WriteFails(i)
  \/ \E data \in FileRecs(keyField) : IsNextKey(data) /\ ManagerAdd(data)
  \/ \E data \in FileRecs(keyField) : Changes(data) /\ ManagerUpdateData(data)
  \/ \E itemId \in MasterKeys : ManagerDelete(itemId)
  \/ ManagerTruncate

SpecWrite == InitWrite /\ [][NextWrite]_vars

\* ----------------------------------------------------------------- C35
\* the records of recs are the items of the store, cleaned, and no other
IsTextOf(recs, h, s, kf) ==
  /\ Len(recs) = Len(s)
  /\ \A rec \in Range(Contents(h, s)) :
       Cardinality({p \in 1..Len(recs) : recs[p] = dataCleaner(rec, kf)})
         = Cardinality({p \in 1..Len(s) : h[s[p]] = rec})

managerSaves(m, sub, recs) ==
  IF m.rootItemManagers = 1 THEN <<Write(Id(sub, 0), recs)>> ELSE <<>>

\* subModel.save({ noValidate: true }) for the sub-models from j on
RECURSIVE subSaves(_, _, _)
subSaves(subs, j, recs) ==
  IF j > Len(subs) THEN <<>>
  ELSE managerSaves(subs[j], j, recs) \o subSaves(subs, j + 1, recs)

\* Model.save(options): without options the parameter cannot be
\* destructured; with validation, this.validate() is called and not
\* awaited, so 'errors' is read from the promise, is undefined, and
\* errors.length throws, whatever the validators report; with noValidate:
\* true every save is called, none is awaited, and the promise resolves
modelSave(m, given, noValidate, bars, recs) ==
  IF ~given THEN [rejects |-> TRUE, validated |-> <<>>, writes |-> <<>>]
  ELSE IF ~noValidate
    THEN [rejects |-> TRUE, validated |-> modelValidate(m, bars).log, writes |-> <<>>]
  ELSE [rejects |-> FALSE, validated |-> <<>>,
        writes |-> managerSaves(m, 0, recs) \o subSaves(m.subModels, 1, recs)]

\* the promise Model.save returned, resolved or rejected
HeldSaved(o) == [kind |-> IF o.rejects THEN "rejected" ELSE "resolved", v |-> 0]

\* model.save(options), or model.save() when none is given
ModelSave(given, noValidate) ==
  /\ model.exists
  /\ InFlight = {}
  /\ \E o \in {modelSave(model, given, noValidate, validate(heap, Master, "NoBar"),
                         save(heap, arrs, items, keyField, file, Undef, TRUE).file.items)} :
       LeaveAll(heap, nheap, arrs, items, indexSpecs, specIndex, idx, HeldSaved(o),
                LastCall("save", o.rejects,
                         CallArg(IF given THEN "options" ELSE Undef,
                                 IF noValidate THEN 1 ELSE 0, Undef), "Model"),
                file, o.writes)

\* the validators a Model is constructed with: none, or one that reports
\* the 'bar' items
SaveKinds == {<<>>, <<"NoBar">>}

NextSave ==
  \/ \E n \in {0, 1}, subs \in SeqsUpTo(SubModels, 1), kinds \in SaveKinds :
       NewModel(n, subs, kinds)
  \/ \E data \in FileRecs("id") : IsNextKey(data) /\ ManagerAdd(data)
  \/ \E given \in BOOLEAN, noValidate \in BOOLEAN :
       (noValidate => given) /\ ModelSave(given, noValidate)
  \/ \E i \in 1..Len(writes) : WriteCompletes(i)
  \/ \E i \in 1..Len(writes) : WriteFails(i)

SpecSave == InitModel /\ [][NextSave]_vars

\* ----------------------------------------------------------------- C36
\* C36: when the promise of Model.save has resolved, the save of every
\* bound root item manager and sub-model has completed; when one of those
\* saves has failed, the promise of Model.save has rejected.
C36_SaveSettlesAfterEverySave ==
  held.kind \in {"resolved", "rejected"} =>
    /\ held.kind = "resolved" => \A i \in 1..Len(writes) : writes[i].state = "written"
    /\ (\E i \in 1..Len(writes) : writes[i].state = "failed") => held.kind = "rejected"

\* ----------------------------------------------------------------- C37
\* the item managers bound in the Model and in its sub-models
Managers(m) ==
  {Id(0, 0) : n \in {m.rootItemManagers} \ {0}}
    \cup {Id(j, 0) : j \in {k \in 1..Len(m.subModels) : m.subModels[k].rootItemManagers = 1}}

\* C37: Model.save with validation (noValidate not true) rejects and calls
\* no save when validation reports an error; when validation reports none
\* it calls save, with noValidate: true, once on every bound root item
\* manager and sub-model.
C37_SaveValidatesThenSavesAll ==
  [][(last'.op = "save" /\ last'.key = "Model" /\ last'.arg.nestedObj = 0) =>
       /\ Len(modelValidate(model, validate(heap, Master, "NoBar")).errors) > 0 =>
            (last'.threw /\ writes' = <<>>)
       /\ Len(modelValidate(model, validate(heap, Master, "NoBar")).errors) = 0 =>
            /\ ~last'.threw
            /\ Len(writes') = Cardinality(Managers(model))
            /\ \A id \in Managers(model) : \E i \in 1..Len(writes') : writes'[i].by = id]_vars

\* The part that holds: with validation Model.save rejects and calls no
\* save, whatever validation reports.
C37_SaveWithValidationRejects ==
  [][(last'.op = "save" /\ last'.key = "Model" /\ last'.arg.nestedObj = 0) =>
       (last'.threw /\ writes' = <<>>)]_vars

\* And with noValidate: true it calls save once on every bound item manager.
C37_SaveWithoutValidationSavesAll ==
  [][(last'.op = "save" /\ last'.key = "Model" /\ last'.arg.nestedObj = 1) =>
       /\ ~last'.threw
       /\ Len(writes') = Cardinality(Managers(model))
       /\ \A id \in Managers(model) : \E i \in 1..Len(writes') : writes'[i].by = id]_vars

====
